---- MODULE Spec2Model ----
(***************************************************************************)
(* Model of the jab3 bot: the run loop of Bot::start, the update           *)
(* sequencer Bot::check_is_old_update and the fan-out of a command to the  *)
(* registered modules in Bot::handle_message_update, the module registry   *)
(* Bot::add_module, the snapshot (impl Persistence for Bot, load_data,     *)
(* save_data) (src/bot/src/bot/mod.rs) and the two transports              *)
(* (src/bot/src/connector/polling.rs, webhook.rs).                          *)
(***************************************************************************)
EXTENDS Integers, Sequences, FiniteSets, TLC

(***************************************************************************)
(* Bounds of the model.                                                    *)
(***************************************************************************)
\* Update ids issued by the upstream are 1..MaxId (0 is the "unset" mark).
MaxId == 4
\* Longest batch one fetch_updates call returns.
MaxBatch == 2
\* The pure sequencer is also exercised on ids and marks MinId..MaxId with
\* MinId = -MinIdAbs: UpdateId is a signed i64 (src/api/src/basic_types.rs:5).
MinIdAbs == 2
\* Chats a module keeps data for are 1..MaxChat.
MaxChat == 1
\* Handlers offered to add_module are numbered 1..MaxHandler.
MaxHandler == 2
\* add_module calls for a name already present that one run is followed through.
MaxRejects == 2
\* Updates the webhook channel holds at most (the channel itself is unbounded).
MaxQueue == 1
\* Updates posted to the listener while the connector is followed on its own.
MaxPosts == 3
\* on_startup calls made on one connector while it is followed on its own.
MaxCalls == 2
\* Largest ImagerConfig.max_reply_attempts followed (the default is 5).
MaxAttempts == 5
\* send_photo_url calls of one command that are counted.
MaxSends == 8
\* Timestamp arguments followed: up to MaxQuarters quarter seconds either side
\* of 0, each with its two neighbours.
MaxQuarters == 7

Ids == 1..MaxId
MinId == 0 - MinIdAbs
SignedIds == MinId..MaxId

\* The modules main() registers (src/src/main.rs:46-47).
Modules == {"imager", "archivarius"}

\* What the payload of an update can be, as far as the loop tells them apart:
\* Update::MessageUpdate with text naming the built-in "del", with any other
\* text, without text; and every other Update variant.
UpdateKinds == {"MessageDel", "MessageText", "MessageNoText", "Other"}

VARIABLES
    last_update_id,       \* Bot.last_update_id
    skip_missed_updates,  \* Bot.skip_missed_updates
    state_rx,             \* the State channel: "empty" or "shutdown"
    pc,                   \* position of Bot::start
    updates,              \* the batch being iterated by `for update in updates`
    idx,                  \* position of that iteration (next element)
    order,                \* iteration order of self.modules.values_mut()
    mstate,               \* per module: state of its try_execute_command future
    dispatched,           \* ids of the updates that passed the sequencer, in order
    gap_log,              \* the "some updates skipped!" error entries, in order
    seen_max,             \* largest id handed to the sequencer so far (0: none)
    fetch_snap,           \* mark, #dispatched, #gap entries when the batch arrived
    last_checked,         \* the latest check_is_old_update call and its result
    start_mark,           \* the mark load_data left at startup (0: none restored)
    modules,              \* Bot.modules: registered name -> the handler registered
    mod_data,             \* per registered name: the module's chat_data (its key set)
    file,                 \* the snapshot file: whether it exists, and its bytes
    io,                   \* outcome of the latest load_data / save_data call
    saved,                \* what the latest successful serialize() was given and gave
    mode,                 \* BotConfig.connector_mode: "polling" or "webhook"
    queue,                \* webhook: updates sent on the channel, not yet received
    srv,                  \* webhook: the spawned server task, owner of the sender
    reg_log,              \* add_module's "already exists" error entries, in order
    first_reg,            \* per name: the handler of the first add_module call for it
    received,             \* the handlers the latest fan-out handed the command to
    offset,               \* PollingConnector.last_update_id: <<>> (None) or <<id>>
    fetch_res,            \* how fetch_updates ended in this iteration ("none": not yet)
    started,              \* the latest on_startup call: "no" (none yet), "ok", "err"
    calls,                \* number of on_startup calls made
    ticked,               \* whether this iteration went through interval.tick()
    kind,                 \* payload kind of the update being handled ("none", "old")
    builtin,              \* the built-in command's future: idle, running, ok, err
    stale,                \* webhook: a server of an earlier on_startup holds the port
    resp,                 \* webhook: what the upstream answered the latest on_startup
    reg_sent,             \* webhook: the SetWebhook request has been issued
    enq,                  \* webhook: every update the route handler sent, in order
    deq,                  \* webhook: every update fetch_updates returned, in order
    dropped,              \* webhook: updates whose send found no receiver
    req,                  \* polling: the latest GetUpdates request (its offset) and
                          \* the smallest id the upstream still holds
    upmax,                \* polling: the largest update id the upstream has issued
    max_reply_attempts,   \* Imager: ImagerConfig.max_reply_attempts
    attempts_left,        \* Imager: `n` of try_execute_command's reply loop
    reply_id,             \* Imager: whether reply_id is Some (TRUE) or None
    sends,                \* Imager: send_photo_url calls made, counted up to MaxSends
    ts_in,                \* Timestamp: the constructor called and its argument
    ts                    \* Timestamp: the value it returned

\* The variables of the registry, the snapshot and the transport.
evars == <<modules, mod_data, file, io, saved, mode, queue, srv>>

\* The record of the registrations.
rvars == <<reg_log, first_reg, received>>

\* The connector's offset and the record of one loop iteration.
lvars == <<offset, fetch_res, started, calls, ticked, kind, builtin>>

\* The record of the webhook connector's startup and channel.
cvars == <<stale, resp, reg_sent, enq, deq, dropped>>

\* The polling connector's upstream and the latest request to it.
uvars == <<req, upmax>>

\* The Imager's reply loop and the Timestamp constructors.
xvars == <<max_reply_attempts, attempts_left, reply_id, sends, ts_in, ts>>

vars == <<last_update_id, skip_missed_updates, state_rx, pc, updates, idx, order,
          mstate, dispatched, gap_log, seen_max, fetch_snap, last_checked, start_mark,
          modules, mod_data, file, io, saved, mode, queue, srv,
          reg_log, first_reg, received,
          offset, fetch_res, started, calls, ticked, kind, builtin,
          stale, resp, reg_sent, enq, deq, dropped,
          req, upmax,
          max_reply_attempts, attempts_left, reply_id, sends, ts_in, ts>>

----------------------------------------------------------------------------
(***************************************************************************)
(* Helpers.                                                                *)
(***************************************************************************)
\* `.max()` slipped into "the first one".
SeqMaxFirst(s) == s[1]

\* updates.into_iter().map(|u| u.id).max().unwrap()
RECURSIVE SeqMax(_)
SeqMax(s) == IF Len(s) = 1 THEN s[1]
             ELSE LET m == SeqMax(Tail(s)) IN IF s[1] >= m THEN s[1] ELSE m

Max2(a, b) == IF a >= b THEN a ELSE b

Last(s) == s[Len(s)]

\* All batches a connector can return: sequences of ids, any order, duplicates
\* allowed (Vec<CommonUpdate>, only the id matters to the sequencer).
Batches == UNION {[1..n -> Ids] : n \in 0..MaxBatch}

Perms(S) == {f \in [1..Cardinality(S) -> S] : \A i, j \in DOMAIN f : f[i] = f[j] => i = j}

NoCheck == [last |-> 0, id |-> 0, old |-> FALSE, logged |-> FALSE, called |-> FALSE]
NoSnap == [mark |-> 0, ndisp |-> 0, ngap |-> 0]
AllIdle == [m \in Modules |-> "idle"]

----------------------------------------------------------------------------
(***************************************************************************)
(* The wire format of the snapshot: bincode with config::standard()        *)
(* (variable-length integers, zig-zag for signed ones, little endian), as  *)
(* used by Bot::serialize / Bot::deserialize and by the modules'           *)
(* Persistence impls.  Bytes are the numbers 0..255.                       *)
(***************************************************************************)
Chats == 1..MaxChat

\* A module's chat_data as far as the snapshot tells two of them apart: the set
\* of chats it holds data for (HashMap<ChatIntId, _>, ChatIntId = i64).  A module
\* built by new() holds none.
ModStates == SUBSET Chats
DefaultState == {}

\* Names a snapshot entry can carry: the two modules main() registers and one
\* of a module that main() does not register.
SnapshotNames == Modules \cup {"gigachat"}

\* UTF-8 bytes of a name.
NameBytes(n) ==
    CASE n = "imager" -> <<105, 109, 97, 103, 101, 114>>
      [] n = "archivarius" -> <<97, 114, 99, 104, 105, 118, 97, 114, 105, 117, 115>>
      [] n = "gigachat" -> <<103, 105, 103, 97, 99, 104, 97, 116>>

\* Unsigned varint: one byte below 251, else the marker 251 and a u16.
Varint(n) == IF n < 251 THEN <<n>> ELSE <<251, n % 256, n \div 256>>

\* Signed integers are zig-zag mapped to unsigned ones first.
ZigZag(i) == IF i >= 0 THEN 2 * i ELSE (0 - 2 * i) - 1
UnZigZag(u) == IF u % 2 = 0 THEN u \div 2 ELSE 0 - ((u + 1) \div 2)

RECURSIVE Concat(_)
Concat(ss) == IF Len(ss) = 0 THEN <<>> ELSE Head(ss) \o Concat(Tail(ss))

\* Reading: every reader answers [ok, val, next] from position pos of b.  Markers
\* above 251 announce widths no value of the model needs; 255 is never valid.
Fail == [ok |-> FALSE, val |-> 0, next |-> 0]

ReadVarint(b, pos) ==
    IF pos > Len(b) THEN Fail
    ELSE IF b[pos] < 251 THEN [ok |-> TRUE, val |-> b[pos], next |-> pos + 1]
    ELSE IF b[pos] = 251 /\ pos + 2 <= Len(b)
    THEN [ok |-> TRUE, val |-> b[pos + 1] + 256 * b[pos + 2], next |-> pos + 3]
    ELSE Fail

\* Vec<u8> and String: length, then that many bytes.
ReadBytes(b, pos) ==
    LET n == ReadVarint(b, pos)
    IN IF ~n.ok \/ n.next + n.val - 1 > Len(b) THEN Fail
       ELSE [ok |-> TRUE, val |-> SubSeq(b, n.next, n.next + n.val - 1),
             next |-> n.next + n.val]

WriteBytes(v) == Varint(Len(v)) \o v

\* A module's serialize(): bincode of its chat_data, a HashMap, so the entry count
\* and then the entries in the map's iteration order, which is arbitrary.  The
\* set of byte strings it can give for the state S.
ModSerialize(S) ==
    {Varint(Cardinality(S)) \o Concat([i \in 1..Cardinality(S) |-> Varint(ZigZag(p[i]))]) :
        p \in Perms(S)}

RECURSIVE ReadKeys(_, _, _)
ReadKeys(b, pos, n) ==
    IF n = 0 THEN [ok |-> TRUE, val |-> {}, next |-> pos]
    ELSE LET k == ReadVarint(b, pos)
         IN IF ~k.ok THEN Fail
            ELSE LET r == ReadKeys(b, k.next, n - 1)
                 IN IF ~r.ok THEN Fail
                    ELSE [ok |-> TRUE, val |-> {UnZigZag(k.val)} \cup r.val,
                          next |-> r.next]

\* A module's deserialize(): decode_from_slice of the HashMap (bytes after the
\* value are ignored); the module's chat_data is assigned only if it succeeds.
ModDeserialize(blob) ==
    LET n == ReadVarint(blob, 1)
    IN IF ~n.ok THEN Fail ELSE ReadKeys(blob, n.next, n.val)

\* PersistenceData with its two fields exchanged on the wire.
EncodeEnvelope_markfirst(entries, mark) ==
    Varint(ZigZag(mark))
        \o Varint(Len(entries))
        \o Concat([i \in 1..Len(entries) |->
                      WriteBytes(NameBytes(entries[i][1])) \o WriteBytes(entries[i][2])])

\* encode_to_vec(PersistenceData {modules, last_update_id}): the map (count, then
\* per entry the String and the Vec<u8>), then the i64.  entries is the map in its
\* iteration order, as pairs <<name, blob>>.
EncodeEnvelope(entries, mark) ==
    Varint(Len(entries))
        \o Concat([i \in 1..Len(entries) |->
                      WriteBytes(NameBytes(entries[i][1])) \o WriteBytes(entries[i][2])])
        \o Varint(ZigZag(mark))

RECURSIVE ReadEntries(_, _, _)
ReadEntries(b, pos, n) ==
    IF n = 0 THEN [ok |-> TRUE, val |-> <<>>, next |-> pos]
    ELSE LET name == ReadBytes(b, pos)
         IN IF ~name.ok THEN Fail
            ELSE LET blob == ReadBytes(b, name.next)
                 IN IF ~blob.ok THEN Fail
                    ELSE LET r == ReadEntries(b, blob.next, n - 1)
                         IN IF ~r.ok THEN Fail
                            ELSE [ok |-> TRUE,
                                  val |-> <<<<name.val, blob.val>>>> \o r.val,
                                  next |-> r.next]

BadEnvelope == [ok |-> FALSE, entries |-> <<>>, mark |-> 0]

\* decode_from_slice::<PersistenceData>: the entries in wire order, names as their
\* bytes, and the mark; bytes after the value are ignored.
DecodeEnvelope(b) ==
    LET n == ReadVarint(b, 1)
    IN IF ~n.ok THEN BadEnvelope
       ELSE LET es == ReadEntries(b, n.next, n.val)
            IN IF ~es.ok THEN BadEnvelope
               ELSE LET m == ReadVarint(b, es.next)
                    IN IF ~m.ok THEN BadEnvelope
                       ELSE [ok |-> TRUE, entries |-> es.val, mark |-> UnZigZag(m.val)]

\* The decoded HashMap: its keys, and the value of a key (a later entry with the
\* same key replaces an earlier one).
EntryNames(env) == {env.entries[i][1] : i \in DOMAIN env.entries}

BlobOf(env, nb) ==
    LET I == {i \in DOMAIN env.entries : env.entries[i][1] = nb}
    IN env.entries[CHOOSE i \in I : \A j \in I : j <= i][2]

----------------------------------------------------------------------------
(***************************************************************************)
(* Bot::check_is_old_update as a function of (last_update_id, id): whether *)
(* the update is old, the new last_update_id and whether the gap error is  *)
(* logged.                                                                 *)
(***************************************************************************)
\* Variants of the sequencer with one plausible slip each; the claims below must
\* tell each of them from check_is_old_update.
\* `>` for `>=` in the first test.
check_is_old_update_gt(last, id) ==
    IF last > id
    THEN [old |-> TRUE, last |-> last, logged |-> FALSE]
    ELSE IF last # 0 /\ last < id - 1
    THEN [old |-> FALSE, last |-> id, logged |-> TRUE]
    ELSE [old |-> FALSE, last |-> id, logged |-> FALSE]

\* The mark is assigned before the update is found to be old.
check_is_old_update_regress(last, id) ==
    IF last >= id
    THEN [old |-> TRUE, last |-> id, logged |-> FALSE]
    ELSE IF last # 0 /\ last < id - 1
    THEN [old |-> FALSE, last |-> id, logged |-> TRUE]
    ELSE [old |-> FALSE, last |-> id, logged |-> FALSE]

\* The gap test without `last_update_id != 0`.
check_is_old_update_nozero(last, id) ==
    IF last >= id
    THEN [old |-> TRUE, last |-> last, logged |-> FALSE]
    ELSE IF last < id - 1
    THEN [old |-> FALSE, last |-> id, logged |-> TRUE]
    ELSE [old |-> FALSE, last |-> id, logged |-> FALSE]

\* The gap branch logs but neither advances the mark nor accepts.
check_is_old_update_gapdrop(last, id) ==
    IF last >= id
    THEN [old |-> TRUE, last |-> last, logged |-> FALSE]
    ELSE IF last # 0 /\ last < id - 1
    THEN [old |-> TRUE, last |-> last, logged |-> TRUE]
    ELSE [old |-> FALSE, last |-> id, logged |-> FALSE]

\* The first test guarded by `last_update_id != 0`.
check_is_old_update_guarded(last, id) ==
    IF last # 0 /\ last >= id
    THEN [old |-> TRUE, last |-> last, logged |-> FALSE]
    ELSE IF last # 0 /\ last < id - 1
    THEN [old |-> FALSE, last |-> id, logged |-> TRUE]
    ELSE [old |-> FALSE, last |-> id, logged |-> FALSE]

check_is_old_update(last, id) ==
    IF last >= id
    THEN [old |-> TRUE, last |-> last, logged |-> FALSE]
    ELSE IF last # 0 /\ last < id - 1
    THEN [old |-> FALSE, last |-> id, logged |-> TRUE]
    ELSE [old |-> FALSE, last |-> id, logged |-> FALSE]

\* One call self.check_is_old_update(id): its effect on the mark and on the error
\* log, with the call recorded in last_checked.
Sequence(id) ==
    LET r == check_is_old_update(last_update_id, id)
    IN /\ last_update_id' = r.last
       /\ last_checked' = [last |-> last_update_id, id |-> id, old |-> r.old,
                           logged |-> r.logged, called |-> TRUE]
       /\ gap_log' = IF r.logged THEN Append(gap_log, <<last_update_id, id>>)
                     ELSE gap_log
       /\ dispatched' = IF r.old THEN dispatched ELSE Append(dispatched, id)

----------------------------------------------------------------------------
(***************************************************************************)
(* The snapshot: impl Persistence for Bot, load_data and save_data.        *)
(***************************************************************************)
NoFile == [exists |-> FALSE, bytes |-> <<>>]
NoSave == [done |-> FALSE, mark |-> 0, data |-> [n \in {} |-> {}], bytes |-> <<>>]

\* Bot::serialize when every module.serialize() succeeds: the byte strings it can
\* return (one per iteration order of the maps involved).
serialize ==
    {EncodeEnvelope([i \in 1..Len(p) |-> <<p[i], c[p[i]]>>], last_update_id) :
        p \in Perms(DOMAIN modules),
        c \in {f \in [DOMAIN modules ->
                        UNION {ModSerialize(mod_data[n]) : n \in DOMAIN modules}] :
                    \A n \in DOMAIN modules : f[n] \in ModSerialize(mod_data[n])}}

\* The loop of Bot::deserialize over the decoded entries taken in the order p: an
\* entry of a registered module is handed to that module, `?` returns at the
\* first one that fails; an entry of an unknown name is skipped with a warning.
ApplyEntries(env, p) ==
    LET Bad == {i \in DOMAIN p :
                    /\ \E n \in DOMAIN modules : NameBytes(n) = p[i]
                    /\ ~ModDeserialize(BlobOf(env, p[i])).ok}
        stop == IF Bad = {} THEN Len(p) + 1 ELSE CHOOSE i \in Bad : \A j \in Bad : i <= j
    IN [ok |-> Bad = {},
        last_update_id |-> env.mark,
        mod_data |-> [n \in DOMAIN modules |->
                        IF \E i \in 1..(stop - 1) : p[i] = NameBytes(n)
                        THEN ModDeserialize(BlobOf(env, NameBytes(n))).val
                        ELSE mod_data[n]]]

\* An entry of an unknown name is an error instead of a warning.
deserialize_strict(input) ==
    LET env == DecodeEnvelope(input)
    IN IF ~env.ok \/ \E nb \in EntryNames(env) : \A n \in DOMAIN modules : NameBytes(n) # nb
       THEN {[ok |-> FALSE, last_update_id |-> last_update_id, mod_data |-> mod_data]}
       ELSE {ApplyEntries(env, p) : p \in Perms(EntryNames(env))}

\* Every entry is handed to every registered module, whatever its name.
deserialize_allmodules(input) ==
    LET env == DecodeEnvelope(input)
    IN IF ~env.ok
       THEN {[ok |-> FALSE, last_update_id |-> last_update_id, mod_data |-> mod_data]}
       ELSE IF EntryNames(env) = {} THEN {ApplyEntries(env, <<>>)}
       ELSE {[ok |-> \A x \in EntryNames(env) : ModDeserialize(BlobOf(env, x)).ok,
              last_update_id |-> env.mark,
              mod_data |-> [n \in DOMAIN modules |->
                              IF ModDeserialize(BlobOf(env, nb)).ok
                              THEN ModDeserialize(BlobOf(env, nb)).val
                              ELSE mod_data[n]]] : nb \in EntryNames(env)}

\* Bot::deserialize(input): the outcomes it can have (one per iteration order of
\* the decoded map), each with the Result and the Bot's fields afterwards.  A
\* decode error leaves the Bot untouched; otherwise the mark is assigned first.
deserialize(input) ==
    LET env == DecodeEnvelope(input)
    IN IF ~env.ok
       THEN {[ok |-> FALSE, last_update_id |-> last_update_id, mod_data |-> mod_data]}
       ELSE {ApplyEntries(env, p) : p \in Perms(EntryNames(env))}

\* The modules' data is restored, the mark is not.
load_data_nomark ==
    IF ~file.exists
    THEN io' = "load_err" /\ UNCHANGED <<last_update_id, mod_data>>
    ELSE \E r \in deserialize(file.bytes) :
            /\ last_update_id' = last_update_id
            /\ mod_data' = r.mod_data
            /\ io' = IF r.ok THEN "load_ok" ELSE "load_err"

\* Bot::load_data: open and read the whole file, then deserialize.
load_data ==
    IF ~file.exists
    THEN io' = "load_err" /\ UNCHANGED <<last_update_id, mod_data>>
    ELSE \E r \in deserialize(file.bytes) :
            /\ last_update_id' = r.last_update_id
            /\ mod_data' = r.mod_data
            /\ io' = IF r.ok THEN "load_ok" ELSE "load_err"

\* write_all at offset 0 of a file opened with write(true).create(true): the new
\* bytes replace the first Len(data) bytes, what the file held beyond them stays.
Overwrite(old, data) == data \o SubSeq(old, Len(data) + 1, Len(old))

\* The file is opened, and so created, before the snapshot is serialized.
save_data_eager ==
    \/ /\ DOMAIN modules # {}
       /\ io' = "ser_err"
       /\ file' = [exists |-> TRUE, bytes |-> file.bytes]
       /\ UNCHANGED saved
    \/ io' = "save_err" /\ UNCHANGED <<file, saved>>
    \/ \E data \in serialize :
            /\ file' = [exists |-> TRUE, bytes |-> Overwrite(file.bytes, data)]
            /\ saved' = [done |-> TRUE, mark |-> last_update_id, data |-> mod_data,
                         bytes |-> data]
            /\ io' = "save_ok"

\* Bot::save_data: serialize()? (the serialize of a registered module may fail:
\* "ser_err"), open()? (may fail: "save_err"), then write_all.
save_data ==
    \/ DOMAIN modules # {} /\ io' = "ser_err" /\ UNCHANGED <<file, saved>>
    \/ io' = "save_err" /\ UNCHANGED <<file, saved>>
    \/ \E data \in serialize :
            /\ file' = [exists |-> TRUE, bytes |-> Overwrite(file.bytes, data)]
            /\ saved' = [done |-> TRUE, mark |-> last_update_id, data |-> mod_data,
                         bytes |-> data]
            /\ io' = "save_ok"

----------------------------------------------------------------------------
\* PollingConnector::with_config: last_update_id: None; nothing fetched, started
\* or handled yet.
LInit ==
    /\ offset = <<>>
    /\ fetch_res = "none"
    /\ started = "no"
    /\ calls = 0
    /\ ticked = FALSE
    /\ kind = "none"
    /\ builtin = "idle"

\* GetWebhookInfo as on_startup reads it: whether the request gave a result, and
\* in the result has_custom_certificate, url == https_url, ip_address ==
\* config.ip_address.
Infos == [ok : BOOLEAN, cert : BOOLEAN, url : BOOLEAN, ip : BOOLEAN]
NoInfo == [ok |-> FALSE, cert |-> FALSE, url |-> FALSE, ip |-> FALSE]

\* What the surroundings answer one on_startup call.  Polling: del, the
\* DeleteWebhook request ("err": the request failed, "refused": an error
\* response, "ok").  Webhook: pem, whether the certificate and key load; set,
\* the SetWebhook request ("err": failed or error response, "false", "true");
\* info, the GetWebhookInfo request.
NoResp == [del |-> "none", pem |-> FALSE, set |-> "none", info |-> NoInfo]

StartupResponses(m) ==
    IF m = "polling"
    THEN {[del |-> d, pem |-> FALSE, set |-> "none", info |-> NoInfo] :
            d \in {"err", "refused", "ok"}}
    ELSE {[del |-> "none", pem |-> c, set |-> w, info |-> i] :
            c \in BOOLEAN, w \in {"err", "false", "true"}, i \in Infos}

\* The verification without its last ensure!.
RegistrationConfirmed_noip(r) ==
    r.set = "true" /\ r.info.ok /\ r.info.cert /\ r.info.url

\* WebhookConnector::on_startup from the SetWebhook request on: the request's
\* result must be true, the GetWebhookInfo request must give a result, and the
\* three ensure! on it must pass.
RegistrationConfirmed(r) ==
    r.set = "true" /\ r.info.ok /\ r.info.cert /\ r.info.url /\ r.info.ip

\* Connector::on_startup: whether it returns Ok.  The polling connector fails
\* only if its request failed (an error response is logged); the webhook
\* connector needs its certificate loaded and its registration confirmed.
on_startup(m, r) ==
    IF m = "polling" THEN r.del # "err" ELSE r.pem /\ RegistrationConfirmed(r)

\* WebhookConnector::with_config: rx: None; no listener, no request, no update.
CInit ==
    /\ stale = FALSE
    /\ resp = NoResp
    /\ reg_sent = FALSE
    /\ enq = <<>>
    /\ deq = <<>>
    /\ dropped = 0

NoReq == [sent |-> FALSE, offset |-> <<>>, low |-> 1]

\* No request was sent; the upstream has issued no update.
UInit ==
    /\ req = NoReq
    /\ upmax = 0

NoTs == [seconds |-> 0, nanos |-> [hi |-> 0, lo |-> 0]]
NoTsIn == [unit |-> "none", arg |-> 0]

\* No command reached the Imager; no Timestamp was built.
XInit ==
    /\ max_reply_attempts = 0
    /\ attempts_left = 0
    /\ reply_id = TRUE
    /\ sends = 0
    /\ ts_in = NoTsIn
    /\ ts = NoTs

\* The registry after main(): both names, each with the handler added first.
MainRegistry == [n \in Modules |-> 1]

\* What the snapshot file can be when the process starts: absent, or written by
\* the save_data of an earlier run that stopped with the mark m and its modules
\* holding no chat data.
StartFiles ==
    {NoFile} \cup
    {[exists |-> TRUE,
      bytes |-> EncodeEnvelope(<<<<"imager", <<0>>>>, <<"archivarius", <<0>>>>>>, m)] :
        m \in Ids}

Init ==
    /\ last_update_id = 0
    /\ skip_missed_updates \in BOOLEAN
    /\ state_rx = "empty"
    /\ pc = "load"
    /\ updates = <<>>
    /\ idx = 1
    /\ order \in Perms(Modules)
    /\ mstate = AllIdle
    /\ dispatched = <<>>
    /\ gap_log = <<>>
    /\ seen_max = 0
    /\ fetch_snap = NoSnap
    /\ last_checked = NoCheck
    /\ start_mark = 0
    /\ modules = MainRegistry
    /\ mod_data = [n \in Modules |-> DefaultState]
    /\ file \in StartFiles
    /\ io = "none"
    /\ saved = NoSave
    /\ mode = "polling"
    /\ queue = <<>>
    /\ srv = "none"
    /\ reg_log = <<>>
    /\ first_reg = MainRegistry
    /\ received = {}
    /\ LInit
    /\ CInit
    /\ UInit
    /\ XInit

\* start(): load_data; its failure is only logged (the mark stays 0), its
\* success leaves the mark a previous run saved.
LoadData ==
    /\ pc = "load"
    /\ load_data
    /\ start_mark' = last_update_id'
    /\ pc' = "startup"
    /\ UNCHANGED <<skip_missed_updates, state_rx, updates, idx, order, mstate,
                   dispatched, gap_log, seen_max, fetch_snap, last_checked>>
    /\ UNCHANGED <<modules, file, saved, mode, queue, srv>>
    /\ UNCHANGED rvars
    /\ UNCHANGED lvars
    /\ UNCHANGED cvars
    /\ UNCHANGED uvars
    /\ UNCHANGED xvars

\* The failure of on_startup is logged as that of load_data is, and the loop is
\* entered.
OnStartup_lenient ==
    /\ pc = "startup"
    /\ \E r \in StartupResponses(mode) :
            started' = IF on_startup(mode, r) THEN "ok" ELSE "err"
    /\ pc' = "loop"
    /\ IF mode = "webhook" THEN srv' \in {"up", "down"} ELSE UNCHANGED srv
    /\ UNCHANGED <<modules, mod_data, file, io, saved, mode, queue>>
    /\ UNCHANGED <<last_update_id, skip_missed_updates, state_rx, updates, idx, order,
                   mstate, dispatched, gap_log, seen_max, fetch_snap, last_checked, start_mark>>
    /\ UNCHANGED rvars
    /\ calls' = calls + 1
    /\ UNCHANGED <<offset, fetch_res, ticked, kind, builtin>>
    /\ UNCHANGED cvars
    /\ UNCHANGED uvars
    /\ UNCHANGED xvars

\* connector.on_startup().await.expect(..): Ok enters the loop, Err panics.  The
\* webhook connector has spawned its server task by then (webhook.rs:103); the
\* task owns the channel's only sender and is running, or has already ended
\* (its bind failed).
OnStartup ==
    /\ pc = "startup"
    /\ \E r \in StartupResponses(mode) :
            started' = IF on_startup(mode, r) THEN "ok" ELSE "err"
    /\ pc' = IF started' = "ok" THEN "loop" ELSE "panicked"
    /\ IF mode = "webhook" THEN srv' \in {"up", "down"} ELSE UNCHANGED srv
    /\ UNCHANGED <<modules, mod_data, file, io, saved, mode, queue>>
    /\ UNCHANGED <<last_update_id, skip_missed_updates, state_rx, updates, idx, order,
                   mstate, dispatched, gap_log, seen_max, fetch_snap, last_checked, start_mark>>
    /\ UNCHANGED rvars
    /\ calls' = calls + 1
    /\ UNCHANGED <<offset, fetch_res, ticked, kind, builtin>>
    /\ UNCHANGED cvars
    /\ UNCHANGED uvars
    /\ UNCHANGED xvars

\* main(): ctrl_c arrives and State::Shutdown is sent on the channel.
CtrlC ==
    /\ state_rx = "empty"
    /\ pc \notin {"stopped", "panicked", "fetch_panicked"}
    /\ state_rx' = "shutdown"
    /\ UNCHANGED <<last_update_id, skip_missed_updates, pc, updates, idx, order,
                   mstate, dispatched, gap_log, seen_max, fetch_snap, last_checked, start_mark>>
    /\ UNCHANGED evars
    /\ UNCHANGED rvars
    /\ UNCHANGED lvars
    /\ UNCHANGED cvars
    /\ UNCHANGED uvars
    /\ UNCHANGED xvars

\* A failed save_data is tried again in the next iteration instead of given up.
LoopTop_retry ==
    /\ pc = "loop"
    /\ IF state_rx = "shutdown"
       THEN /\ save_data
            /\ IF io' # "save_ok"
               THEN pc' = "loop" /\ UNCHANGED state_rx
               ELSE pc' = "stopped" /\ state_rx' = "empty"
       ELSE pc' = "fetch" /\ UNCHANGED <<state_rx, file, saved, io>>
    /\ UNCHANGED <<modules, mod_data, mode, queue, srv>>
    /\ updates' = <<>>
    /\ idx' = 1
    /\ mstate' = AllIdle
    /\ fetch_snap' = NoSnap
    /\ last_checked' = NoCheck
    /\ UNCHANGED <<last_update_id, skip_missed_updates, order,
                   dispatched, gap_log, seen_max, start_mark>>
    /\ UNCHANGED rvars
    /\ fetch_res' = "none"
    /\ ticked' = FALSE
    /\ kind' = "none"
    /\ builtin' = "idle"
    /\ UNCHANGED <<offset, started, calls>>
    /\ UNCHANGED cvars
    /\ UNCHANGED uvars
    /\ UNCHANGED xvars

\* Top of the loop: state_rx.try_recv(); on Shutdown save_data (its failure is only
\* logged) and return, otherwise call connector.fetch_updates().  The previous
\* iteration's locals (its batch, its futures) are gone.
LoopTop ==
    /\ pc = "loop"
    /\ IF state_rx = "shutdown"
       THEN pc' = "stopped" /\ state_rx' = "empty" /\ save_data
       ELSE pc' = "fetch" /\ UNCHANGED <<state_rx, file, saved, io>>
    /\ UNCHANGED <<modules, mod_data, mode, queue, srv>>
    /\ updates' = <<>>
    /\ idx' = 1
    /\ mstate' = AllIdle
    /\ fetch_snap' = NoSnap
    /\ last_checked' = NoCheck
    /\ UNCHANGED <<last_update_id, skip_missed_updates, order,
                   dispatched, gap_log, seen_max, start_mark>>
    /\ UNCHANGED rvars
    /\ fetch_res' = "none"
    /\ ticked' = FALSE
    /\ kind' = "none"
    /\ builtin' = "idle"
    /\ UNCHANGED <<offset, started, calls>>
    /\ UNCHANGED cvars
    /\ UNCHANGED uvars
    /\ UNCHANGED xvars

\* A failed poll makes the connector forget its offset.
FetchErr_reset ==
    /\ pc = "fetch"
    /\ mode = "polling"
    /\ pc' = "loop"
    /\ UNCHANGED evars
    /\ UNCHANGED <<last_update_id, skip_missed_updates, state_rx, updates, idx, order,
                   mstate, dispatched, gap_log, seen_max, fetch_snap, last_checked, start_mark>>
    /\ UNCHANGED rvars
    /\ fetch_res' = "err"
    /\ offset' = <<>>
    /\ UNCHANGED <<started, calls, ticked, kind, builtin>>
    /\ UNCHANGED cvars
    /\ UNCHANGED uvars
    /\ UNCHANGED xvars

\* fetch_updates() returned Err: logged, continue.  Only a poll can: the webhook
\* connector's channel carries Ok values only (webhook.rs:84) and its receiver is
\* in place once on_startup was called.
FetchErr ==
    /\ pc = "fetch"
    /\ mode = "polling"
    /\ pc' = "loop"
    /\ UNCHANGED evars
    /\ UNCHANGED <<last_update_id, skip_missed_updates, state_rx, updates, idx, order,
                   mstate, dispatched, gap_log, seen_max, fetch_snap, last_checked, start_mark>>
    /\ UNCHANGED rvars
    /\ fetch_res' = "err"
    /\ UNCHANGED <<offset, started, calls, ticked, kind, builtin>>
    /\ UNCHANGED cvars
    /\ UNCHANGED uvars
    /\ UNCHANGED xvars

\* The offset stored is the one the upstream's interface asks for: one above the
\* largest id received.
NextOffset_ack(o, b) == IF Len(b) > 0 THEN <<SeqMax(b) + 1>> ELSE o

\* PollingConnector::fetch_updates, after the response (polling.rs:74-77): a
\* non-empty batch replaces the stored offset by its largest id.
NextOffset(o, b) == IF Len(b) > 0 THEN <<SeqMax(b)>> ELSE o

\* The first non-empty batch of a run is skipped, whatever mark was restored.
ColdStart_firstbatch == seen_max = 0 /\ skip_missed_updates

\* The test before the for loop (mod.rs:215): no mark yet, and the skip flag.
ColdStart == last_update_id = 0 /\ skip_missed_updates

\* fetch_updates() returned Ok(b): empty -> continue; cold start with the skip
\* flag -> fast-forward the mark to the largest id and continue; otherwise iterate.
Fetched(b) ==
    /\ mode = "webhook" => queue # <<>> /\ b = <<Head(queue)>>
    /\ queue' = IF mode = "webhook" THEN Tail(queue) ELSE queue
    /\ offset' = IF mode = "polling" THEN NextOffset(offset, b) ELSE offset
    /\ updates' = b
    /\ IF Len(b) = 0
       THEN /\ pc' = "loop"
            /\ fetch_res' = "empty"
            /\ UNCHANGED <<last_update_id, idx, seen_max, fetch_snap>>
       ELSE /\ fetch_snap' = [mark |-> last_update_id, ndisp |-> Len(dispatched),
                              ngap |-> Len(gap_log)]
            /\ IF ColdStart
               THEN /\ last_update_id' = SeqMax(b)
                    /\ seen_max' = Max2(seen_max, SeqMax(b))
                    /\ idx' = Len(b) + 1
                    /\ pc' = "loop"
                    /\ fetch_res' = "skipped"
               ELSE /\ idx' = 1
                    /\ pc' = "for"
                    /\ fetch_res' = "batch"
                    /\ UNCHANGED <<last_update_id, seen_max>>
    /\ UNCHANGED <<skip_missed_updates, state_rx, order, mstate, dispatched, gap_log,
                   last_checked, start_mark>>
    /\ UNCHANGED <<modules, mod_data, file, io, saved, mode, srv>>
    /\ UNCHANGED rvars
    /\ UNCHANGED <<started, calls, ticked, kind, builtin>>
    /\ UNCHANGED cvars

\* fetch_updates() returned Ok(batch), any batch.
FetchOk ==
    /\ pc = "fetch"
    /\ \E b \in Batches : Fetched(b)
    /\ UNCHANGED uvars
    /\ UNCHANGED xvars

\* A message without text is handed to the modules like one with text.
ForNext_notext ==
    /\ pc = "for"
    /\ idx <= Len(updates)
    /\ LET id == updates[idx]
       IN /\ Sequence(id)
          /\ seen_max' = Max2(seen_max, id)
          /\ idx' = idx + 1
          /\ IF check_is_old_update(last_update_id, id).old
             THEN /\ pc' = "for"
                  /\ mstate' = AllIdle
                  /\ kind' = "old"
                  /\ builtin' = "idle"
             ELSE \E k \in UpdateKinds :
                     /\ kind' = k
                     /\ CASE k \in {"MessageText", "MessageNoText"} ->
                                /\ mstate' = [m \in Modules |-> "created"]
                                /\ builtin' = "idle"
                                /\ pc' = "join"
                          [] k = "MessageDel" ->
                                /\ mstate' = AllIdle
                                /\ builtin' = "running"
                                /\ pc' = "del"
                          [] OTHER ->
                                /\ mstate' = AllIdle
                                /\ builtin' = "idle"
                                /\ pc' = "for"
    /\ UNCHANGED <<skip_missed_updates, state_rx, updates, order, fetch_snap, start_mark>>
    /\ UNCHANGED evars
    /\ UNCHANGED rvars
    /\ UNCHANGED <<offset, fetch_res, started, calls, ticked>>
    /\ UNCHANGED cvars
    /\ UNCHANGED uvars
    /\ UNCHANGED xvars

\* One iteration of `for update in updates`, up to its first await: the sequencer,
\* then the match on update.data and, for a MessageUpdate, the synchronous head of
\* handle_message_update (command extraction, built-in lookup, creation of the
\* modules' futures). The payload is read here for the first time, so it is drawn
\* here.
ForNext ==
    /\ pc = "for"
    /\ idx <= Len(updates)
    /\ LET id == updates[idx]
       IN /\ Sequence(id)
          /\ seen_max' = Max2(seen_max, id)
          /\ idx' = idx + 1
          /\ IF check_is_old_update(last_update_id, id).old
             THEN /\ pc' = "for"
                  /\ mstate' = AllIdle
                  /\ kind' = "old"
                  /\ builtin' = "idle"
             ELSE \E k \in UpdateKinds :
                     /\ kind' = k
                     /\ CASE k = "MessageText" ->
                                /\ mstate' = [m \in Modules |-> "created"]
                                /\ builtin' = "idle"
                                /\ pc' = "join"
                          [] k = "MessageDel" ->
                                /\ mstate' = AllIdle
                                /\ builtin' = "running"
                                /\ pc' = "del"
                          [] OTHER ->
                                /\ mstate' = AllIdle
                                /\ builtin' = "idle"
                                /\ pc' = "for"
    /\ UNCHANGED <<skip_missed_updates, state_rx, updates, order, fetch_snap, start_mark>>
    /\ UNCHANGED evars
    /\ UNCHANGED rvars
    /\ UNCHANGED <<offset, fetch_res, started, calls, ticked>>
    /\ UNCHANGED cvars
    /\ UNCHANGED uvars
    /\ UNCHANGED xvars

\* Without the `return Ok(())` after the built-in: when del succeeded the command
\* is fanned out to the modules as well.
DelDone_fallthrough ==
    /\ pc = "del"
    /\ builtin' \in {"ok", "err"}
    /\ IF builtin' = "ok"
       THEN pc' = "join" /\ mstate' = [m \in Modules |-> "created"]
       ELSE pc' = "for" /\ UNCHANGED mstate
    /\ UNCHANGED <<last_update_id, skip_missed_updates, state_rx, updates, idx, order,
                   dispatched, gap_log, seen_max, fetch_snap, last_checked, start_mark>>
    /\ UNCHANGED evars
    /\ UNCHANGED rvars
    /\ UNCHANGED <<offset, fetch_res, started, calls, ticked, kind>>
    /\ UNCHANGED cvars
    /\ UNCHANGED uvars
    /\ UNCHANGED xvars

\* The built-in: self.communicator.del(&message).await? completes, Ok or Err; either
\* way handle_message_update returns and the loop goes on (an Err is logged).
DelDone ==
    /\ pc = "del"
    /\ pc' = "for"
    /\ UNCHANGED <<last_update_id, skip_missed_updates, state_rx, updates, idx, order,
                   mstate, dispatched, gap_log, seen_max, fetch_snap, last_checked, start_mark>>
    /\ UNCHANGED evars
    /\ UNCHANGED rvars
    /\ builtin' \in {"ok", "err"}
    /\ UNCHANGED <<offset, fetch_res, started, calls, ticked, kind>>
    /\ UNCHANGED cvars
    /\ UNCHANGED uvars
    /\ UNCHANGED xvars

(***************************************************************************)
(* try_join_all(modules.values_mut().map(try_execute_command)).await?      *)
(* One poll of the joined future.  The element futures are polled in       *)
(* iteration order; an element that already returned Ok is not polled      *)
(* again; the first element that returns Err ends the poll at once: the    *)
(* remaining elements are not polled, every unfinished future is dropped   *)
(* and the Err is returned.  Without an Err the join is Pending while any  *)
(* element is, and returns Ok when all have.                               *)
(*   out[m] is what module m's future would answer if polled now.          *)
(* Future states: "created" (never polled), "pending" (suspended at an     *)
(* await), "ok", "err", "never_run" (dropped before its first poll),       *)
(* "cancelled" (dropped while suspended).                                  *)
(***************************************************************************)
Live(st) == st \in {"created", "pending"}

Pos(m) == CHOOSE i \in DOMAIN order : order[i] = m

\* Position of the first element answering Err in this poll, or past the end.
FirstErr(out) ==
    LET E == {i \in DOMAIN order : Live(mstate[order[i]]) /\ out[order[i]] = "err"}
    IN IF E = {} THEN Len(order) + 1 ELSE CHOOSE i \in E : \A j \in E : i <= j

\* The futures after the elements up to position k were polled.
Polled(out, k) ==
    [m \in Modules |->
        IF ~Live(mstate[m]) \/ Pos(m) > k THEN mstate[m] ELSE out[m]]

\* Dropping the joined future's elements (on Err).
Dropped(ms) ==
    [m \in Modules |->
        CASE ms[m] = "created" -> "never_run"
          [] ms[m] = "pending" -> "cancelled"
          [] OTHER -> ms[m]]

\* The futures are polled once and left to run on their own: the call returns
\* after the first poll whether or not every element has finished.
TryJoinAllPoll_detached ==
    /\ pc = "join"
    /\ \E out \in [Modules -> {"pending", "ok", "err"}] :
        LET k == FirstErr(out)
            ms == Polled(out, k)
        IN IF k <= Len(order)
           THEN mstate' = Dropped(ms) /\ pc' = "for"
           ELSE mstate' = ms /\ pc' = "for"
    /\ UNCHANGED <<last_update_id, skip_missed_updates, state_rx, updates, idx, order,
                   dispatched, gap_log, seen_max, fetch_snap, last_checked, start_mark>>
    /\ UNCHANGED evars
    /\ UNCHANGED rvars
    /\ UNCHANGED lvars
    /\ UNCHANGED cvars
    /\ UNCHANGED uvars
    /\ UNCHANGED xvars

\* The handlers' error leaves start() with `?` instead of being logged there.
TryJoinAllPoll_fatal ==
    /\ pc = "join"
    /\ \E out \in [Modules -> {"pending", "ok", "err"}] :
        LET k == FirstErr(out)
            ms == Polled(out, k)
        IN IF k <= Len(order)
           THEN mstate' = Dropped(ms) /\ pc' = "panicked"
           ELSE IF \E m \in Modules : ms[m] = "pending"
           THEN mstate' = ms /\ pc' = "join"
           ELSE mstate' = ms /\ pc' = "for"
    /\ UNCHANGED <<last_update_id, skip_missed_updates, state_rx, updates, idx, order,
                   dispatched, gap_log, seen_max, fetch_snap, last_checked, start_mark>>
    /\ UNCHANGED evars
    /\ UNCHANGED rvars
    /\ UNCHANGED lvars
    /\ UNCHANGED cvars
    /\ UNCHANGED uvars
    /\ UNCHANGED xvars

TryJoinAllPoll ==
    /\ pc = "join"
    /\ \E out \in [Modules -> {"pending", "ok", "err"}] :
        LET k == FirstErr(out)
            ms == Polled(out, k)
        IN IF k <= Len(order)
           THEN mstate' = Dropped(ms) /\ pc' = "for"
           ELSE IF \E m \in Modules : ms[m] = "pending"
           THEN mstate' = ms /\ pc' = "join"
           ELSE mstate' = ms /\ pc' = "for"
    /\ UNCHANGED <<last_update_id, skip_missed_updates, state_rx, updates, idx, order,
                   dispatched, gap_log, seen_max, fetch_snap, last_checked, start_mark>>
    /\ UNCHANGED evars
    /\ UNCHANGED rvars
    /\ UNCHANGED lvars
    /\ UNCHANGED cvars
    /\ UNCHANGED uvars
    /\ UNCHANGED xvars

\* The for loop is left before the batch is exhausted.
ForEnd_early ==
    /\ pc = "for"
    /\ pc' = "tick"
    /\ UNCHANGED <<last_update_id, skip_missed_updates, state_rx, updates, idx, order,
                   mstate, dispatched, gap_log, seen_max, fetch_snap, last_checked, start_mark>>
    /\ UNCHANGED evars
    /\ UNCHANGED rvars
    /\ kind' = "none"
    /\ builtin' = "idle"
    /\ UNCHANGED <<offset, fetch_res, started, calls, ticked>>
    /\ UNCHANGED cvars
    /\ UNCHANGED uvars
    /\ UNCHANGED xvars

\* The batch is exhausted: interval.tick().await.
ForEnd ==
    /\ pc = "for"
    /\ idx > Len(updates)
    /\ pc' = "tick"
    /\ UNCHANGED <<last_update_id, skip_missed_updates, state_rx, updates, idx, order,
                   mstate, dispatched, gap_log, seen_max, fetch_snap, last_checked, start_mark>>
    /\ UNCHANGED evars
    /\ UNCHANGED rvars
    /\ kind' = "none"
    /\ builtin' = "idle"
    /\ UNCHANGED <<offset, fetch_res, started, calls, ticked>>
    /\ UNCHANGED cvars
    /\ UNCHANGED uvars
    /\ UNCHANGED xvars

Tick ==
    /\ pc = "tick"
    /\ pc' = "loop"
    /\ UNCHANGED <<last_update_id, skip_missed_updates, state_rx, updates, idx, order,
                   mstate, dispatched, gap_log, seen_max, fetch_snap, last_checked, start_mark>>
    /\ UNCHANGED evars
    /\ UNCHANGED rvars
    /\ ticked' = TRUE
    /\ UNCHANGED <<offset, fetch_res, started, calls, kind, builtin>>
    /\ UNCHANGED cvars
    /\ UNCHANGED uvars
    /\ UNCHANGED xvars

Next ==
    \/ LoadData
    \/ OnStartup
    \/ CtrlC
    \/ LoopTop
    \/ FetchErr
    \/ FetchOk
    \/ ForNext
    \/ DelDone
    \/ TryJoinAllPoll
    \/ ForEnd
    \/ Tick

Spec == Init /\ [][Next]_vars

----------------------------------------------------------------------------
(***************************************************************************)
(* The run loop over either transport.  Spec above is the run with the     *)
(* polling connector.  The webhook connector's fetch_updates is            *)
(* rx.recv().await.expect("update channel died")?: it returns one update   *)
(* when the channel holds one, waits while the channel is empty and a      *)
(* sender is alive, and panics when the channel is empty and every sender  *)
(* is gone.  The senders live in the router of the server task spawned by  *)
(* on_startup.                                                             *)
(***************************************************************************)
RunInit ==
    /\ last_update_id = 0
    /\ skip_missed_updates \in BOOLEAN
    /\ state_rx = "empty"
    /\ pc = "load"
    /\ updates = <<>>
    /\ idx = 1
    /\ order \in Perms(Modules)
    /\ mstate = AllIdle
    /\ dispatched = <<>>
    /\ gap_log = <<>>
    /\ seen_max = 0
    /\ fetch_snap = NoSnap
    /\ last_checked = NoCheck
    /\ start_mark = 0
    /\ modules = MainRegistry
    /\ mod_data = [n \in Modules |-> DefaultState]
    /\ file \in StartFiles
    /\ io = "none"
    /\ saved = NoSave
    /\ mode \in {"polling", "webhook"}
    /\ queue = <<>>
    /\ srv = "none"
    /\ reg_log = <<>>
    /\ first_reg = MainRegistry
    /\ received = {}
    /\ LInit
    /\ CInit
    /\ UInit
    /\ XInit

\* A channel of capacity one whose sender gives up when it is full.
ChanSend_bounded(q, u) == IF Len(q) >= 1 THEN q ELSE Append(q, u)

\* UnboundedSender::send on the channel of unbounded_channel(): the value goes
\* to the back, whatever the channel holds already.
ChanSend(q, u) == Append(q, u)

\* The upstream posts an update to the listener: the route handler sends it on
\* the channel (webhook.rs:78-82).
WebhookPost ==
    /\ mode = "webhook"
    /\ srv = "up"
    /\ pc \notin {"stopped", "panicked", "fetch_panicked"}
    /\ Len(queue) < MaxQueue
    /\ \E id \in Ids : queue' = ChanSend(queue, id)
    /\ UNCHANGED <<last_update_id, skip_missed_updates, state_rx, pc, updates, idx, order,
                   mstate, dispatched, gap_log, seen_max, fetch_snap, last_checked,
                   start_mark, modules, mod_data, file, io, saved, mode, srv>>
    /\ UNCHANGED rvars
    /\ UNCHANGED lvars
    /\ UNCHANGED cvars
    /\ UNCHANGED uvars
    /\ UNCHANGED xvars

\* The spawned server task ends (its future returns an error): the router and
\* with it every sender of the channel is dropped.
ServerEnds ==
    /\ srv = "up"
    /\ pc \notin {"stopped", "panicked", "fetch_panicked"}
    /\ srv' = "down"
    /\ UNCHANGED <<last_update_id, skip_missed_updates, state_rx, pc, updates, idx, order,
                   mstate, dispatched, gap_log, seen_max, fetch_snap, last_checked,
                   start_mark, modules, mod_data, file, io, saved, mode, queue>>
    /\ UNCHANGED rvars
    /\ UNCHANGED lvars
    /\ UNCHANGED cvars
    /\ UNCHANGED uvars
    /\ UNCHANGED xvars

\* fetch_updates of the webhook connector on an empty channel without senders:
\* recv() gives None and expect("update channel died") panics.
FetchPanic ==
    /\ pc = "fetch"
    /\ mode = "webhook"
    /\ queue = <<>>
    /\ srv = "down"
    /\ pc' = "fetch_panicked"
    /\ UNCHANGED <<last_update_id, skip_missed_updates, state_rx, updates, idx, order,
                   mstate, dispatched, gap_log, seen_max, fetch_snap, last_checked,
                   start_mark>>
    /\ UNCHANGED evars
    /\ UNCHANGED rvars
    /\ UNCHANGED lvars
    /\ UNCHANGED cvars
    /\ UNCHANGED uvars
    /\ UNCHANGED xvars

RunNext ==
    \/ Next
    \/ WebhookPost
    \/ ServerEnds
    \/ FetchPanic

RunSpec == RunInit /\ [][RunNext]_vars

\* The steps of Bot::start itself, as opposed to those of its surroundings
\* (the upstream posting an update, ctrl-c, the server task ending).  Where none
\* of them is possible, start() is suspended until the surroundings act.
BotStep ==
    \/ LoadData
    \/ OnStartup
    \/ LoopTop
    \/ FetchErr
    \/ FetchOk
    \/ ForNext
    \/ DelDone
    \/ TryJoinAllPoll
    \/ ForEnd
    \/ Tick
    \/ FetchPanic

-----------------------------------------------------------------------------
(***************************************************************************)
(* A connector on its own, driven through its interface: on_startup (up to *)
(* MaxCalls times), fetch_updates, and for the webhook connector the       *)
(* upstream posting to whichever server task holds the port.               *)
(*                                                                         *)
(* WebhookConnector::on_startup is followed in two steps, up to            *)
(* tokio::spawn(srv) and from the SetWebhook request on, because posts     *)
(* reach the spawned server between the two.  It takes &mut self, so no    *)
(* fetch_updates runs between them.                                        *)
(*                                                                         *)
(* srv is the server task spawned by the latest call ("none": none was     *)
(* spawned yet); stale, whether a server task of an earlier call still     *)
(* holds the port: its router sends on a channel whose receiver the later  *)
(* call dropped (self.rx.replace(rx)), and the later call's server cannot  *)
(* bind the address.                                                       *)
(***************************************************************************)
bvars == <<last_update_id, skip_missed_updates, state_rx, idx, order, mstate, dispatched,
           gap_log, seen_max, fetch_snap, last_checked, start_mark>>

ConnInit ==
    /\ last_update_id = 0
    /\ skip_missed_updates = FALSE
    /\ state_rx = "empty"
    /\ pc = "c_idle"
    /\ updates = <<>>
    /\ idx = 1
    /\ order = <<"imager", "archivarius">>
    /\ mstate = AllIdle
    /\ dispatched = <<>>
    /\ gap_log = <<>>
    /\ seen_max = 0
    /\ fetch_snap = NoSnap
    /\ last_checked = NoCheck
    /\ start_mark = 0
    /\ modules = MainRegistry
    /\ mod_data = [n \in Modules |-> DefaultState]
    /\ file = NoFile
    /\ io = "none"
    /\ saved = NoSave
    /\ mode \in {"polling", "webhook"}
    /\ queue = <<>>
    /\ srv = "none"
    /\ reg_log = <<>>
    /\ first_reg = MainRegistry
    /\ received = {}
    /\ LInit
    /\ CInit
    /\ UInit
    /\ XInit

\* on_startup is entered.  Polling (polling.rs:37-56): the DeleteWebhook request,
\* and the call is over.  Webhook (webhook.rs:51-105): a new channel whose
\* receiver replaces the one held, the certificate is loaded (its failure
\* returns Err, and the router with the new sender is dropped), the server is
\* spawned; the spawned task serves only if it can bind the address, which it
\* cannot while a task of an earlier call holds it.
ConnBegin ==
    /\ pc = "c_idle"
    /\ calls < MaxCalls
    /\ calls' = calls + 1
    /\ IF mode = "polling"
       THEN /\ \E r \in StartupResponses(mode) :
                /\ resp' = r
                /\ started' = IF on_startup(mode, r) THEN "ok" ELSE "err"
            /\ UNCHANGED <<pc, queue, srv, stale>>
       ELSE /\ queue' = <<>>
            /\ stale' = (stale \/ srv = "up")
            /\ \E c \in BOOLEAN :
                /\ resp' = [NoResp EXCEPT !.pem = c]
                /\ IF c
                   THEN /\ pc' = "c_spawned"
                        /\ started' = "no"
                        /\ srv' \in (IF stale' THEN {"down"} ELSE {"up", "down"})
                   ELSE /\ pc' = "c_idle"
                        /\ started' = "err"
                        /\ srv' = IF srv = "none" THEN "none" ELSE "down"
    /\ UNCHANGED <<updates, modules, mod_data, file, io, saved, mode>>
    /\ UNCHANGED bvars
    /\ UNCHANGED rvars
    /\ UNCHANGED <<offset, fetch_res, ticked, kind, builtin>>
    /\ UNCHANGED <<reg_sent, enq, deq, dropped>>
    /\ UNCHANGED uvars
    /\ UNCHANGED xvars

\* The registration is requested although no listener was spawned.
ConnRegister_unspawned ==
    /\ pc \in {"c_idle", "c_spawned"}
    /\ mode = "webhook"
    /\ \E r \in StartupResponses(mode) :
        /\ r.pem
        /\ resp' = r
        /\ started' = IF on_startup(mode, r) THEN "ok" ELSE "err"
    /\ reg_sent' = TRUE
    /\ pc' = "c_idle"
    /\ UNCHANGED <<updates, modules, mod_data, file, io, saved, mode, queue, srv>>
    /\ UNCHANGED bvars
    /\ UNCHANGED rvars
    /\ UNCHANGED <<offset, fetch_res, calls, ticked, kind, builtin>>
    /\ UNCHANGED <<stale, enq, deq, dropped>>
    /\ UNCHANGED uvars
    /\ UNCHANGED xvars

\* The rest of WebhookConnector::on_startup (webhook.rs:107-145): the SetWebhook
\* request, the GetWebhookInfo request and the ensure! on their results.
\* Whatever it returns, the spawned server keeps running.
ConnRegister ==
    /\ pc = "c_spawned"
    /\ mode = "webhook"
    /\ \E r \in StartupResponses(mode) :
        /\ r.pem
        /\ resp' = r
        /\ started' = IF on_startup(mode, r) THEN "ok" ELSE "err"
    /\ reg_sent' = TRUE
    /\ pc' = "c_idle"
    /\ UNCHANGED <<updates, modules, mod_data, file, io, saved, mode, queue, srv>>
    /\ UNCHANGED bvars
    /\ UNCHANGED rvars
    /\ UNCHANGED <<offset, fetch_res, calls, ticked, kind, builtin>>
    /\ UNCHANGED <<stale, enq, deq, dropped>>
    /\ UNCHANGED uvars
    /\ UNCHANGED xvars

\* The upstream posts an update to the address.  The server task of the latest
\* call has it sent on the channel fetch_updates reads; the task of an earlier
\* call sends on a channel without receiver: send fails, expect panics in the
\* handler, the update is gone.
ConnPost ==
    /\ mode = "webhook"
    /\ pc \in {"c_idle", "c_spawned"}
    /\ srv = "up" \/ stale
    /\ Len(enq) + dropped < MaxPosts
    /\ \E id \in Ids :
        IF srv = "up"
        THEN /\ queue' = ChanSend(queue, id)
             /\ enq' = Append(enq, id)
             /\ UNCHANGED dropped
        ELSE /\ dropped' = dropped + 1
             /\ UNCHANGED <<queue, enq>>
    /\ UNCHANGED <<pc, updates, modules, mod_data, file, io, saved, mode, srv>>
    /\ UNCHANGED bvars
    /\ UNCHANGED rvars
    /\ UNCHANGED lvars
    /\ UNCHANGED <<stale, resp, reg_sent, deq>>
    /\ UNCHANGED uvars
    /\ UNCHANGED xvars

\* A server task ends: its router, and with it its sender, is dropped.
ConnServerEnds ==
    /\ pc \in {"c_idle", "c_spawned"}
    /\ \/ srv = "up" /\ srv' = "down" /\ UNCHANGED stale
       \/ stale /\ stale' = FALSE /\ UNCHANGED srv
    /\ UNCHANGED <<pc, updates, modules, mod_data, file, io, saved, mode, queue>>
    /\ UNCHANGED bvars
    /\ UNCHANGED rvars
    /\ UNCHANGED lvars
    /\ UNCHANGED <<resp, reg_sent, enq, deq, dropped>>
    /\ UNCHANGED uvars
    /\ UNCHANGED xvars

\* fetch_updates.  Polling (polling.rs:58-80): Err, or a batch whose largest id
\* becomes the offset.  Webhook (webhook.rs:148-154): Err while no receiver is
\* held; else the oldest update of the channel as a batch of one; it waits on an
\* empty channel whose sender is alive and panics on one whose sender is gone.
ConnFetch ==
    /\ pc = "c_idle"
    /\ IF mode = "polling"
       THEN /\ \/ /\ fetch_res' = "err"
                  /\ UNCHANGED <<updates, offset>>
               \/ \E b \in Batches :
                    /\ updates' = b
                    /\ offset' = NextOffset(offset, b)
                    /\ fetch_res' = IF Len(b) = 0 THEN "empty" ELSE "batch"
            /\ UNCHANGED <<pc, queue, deq>>
       ELSE IF calls = 0
            THEN /\ fetch_res' = "err"
                 /\ UNCHANGED <<pc, updates, offset, queue, deq>>
            ELSE IF queue # <<>>
                 THEN /\ updates' = <<Head(queue)>>
                      /\ queue' = Tail(queue)
                      /\ deq' = Append(deq, Head(queue))
                      /\ fetch_res' = "batch"
                      /\ UNCHANGED <<pc, offset>>
                 ELSE /\ srv # "up"
                      /\ pc' = "c_panicked"
                      /\ UNCHANGED <<updates, offset, fetch_res, queue, deq>>
    /\ UNCHANGED <<modules, mod_data, file, io, saved, mode, srv>>
    /\ UNCHANGED bvars
    /\ UNCHANGED rvars
    /\ UNCHANGED <<started, calls, ticked, kind, builtin>>
    /\ UNCHANGED <<stale, resp, reg_sent, enq, dropped>>
    /\ UNCHANGED uvars
    /\ UNCHANGED xvars

ConnNext ==
    \/ ConnBegin
    \/ ConnRegister
    \/ ConnPost
    \/ ConnServerEnds
    \/ ConnFetch

ConnSpec == ConnInit /\ [][ConnNext]_vars

-----------------------------------------------------------------------------
(***************************************************************************)
(* The run loop with the polling connector against an upstream that keeps  *)
(* its part of the getUpdates interface: it issues updates with the ids    *)
(* 1, 2, ..; a request with offset o makes it forget the updates below o;  *)
(* it answers with the updates it holds whose id is at least o (all it     *)
(* holds when the request has no offset), oldest first, up to the limit.   *)
(* A run that stopped after a successful save can be followed by a next    *)
(* process: a new Bot and a new connector (offset None), the same file and *)
(* the same upstream.                                                      *)
(***************************************************************************)
\* What a request with the offset o leaves the upstream holding from.
LowAfter(o) == IF o = <<>> THEN req.low ELSE Max2(req.low, o[1])

\* The upstream's answer to a request with the offset o.
Answer(o) ==
    LET from == LowAfter(o)
        n == IF upmax - from + 1 > MaxBatch THEN MaxBatch
             ELSE IF upmax < from THEN 0 ELSE upmax - from + 1
    IN [i \in 1..n |-> from + i - 1]

PollInit ==
    /\ last_update_id = 0
    /\ skip_missed_updates \in BOOLEAN
    /\ state_rx = "empty"
    /\ pc = "load"
    /\ updates = <<>>
    /\ idx = 1
    /\ order = <<"imager", "archivarius">>
    /\ mstate = AllIdle
    /\ dispatched = <<>>
    /\ gap_log = <<>>
    /\ seen_max = 0
    /\ fetch_snap = NoSnap
    /\ last_checked = NoCheck
    /\ start_mark = 0
    /\ modules = MainRegistry
    /\ mod_data = [n \in Modules |-> DefaultState]
    /\ file = NoFile
    /\ io = "none"
    /\ saved = NoSave
    /\ mode = "polling"
    /\ queue = <<>>
    /\ srv = "none"
    /\ reg_log = <<>>
    /\ first_reg = MainRegistry
    /\ received = {}
    /\ LInit
    /\ CInit
    /\ UInit
    /\ XInit

\* The upstream issues its next update.
UpstreamNew ==
    /\ upmax < MaxId
    /\ upmax' = upmax + 1
    /\ UNCHANGED req
    /\ UNCHANGED <<pc, updates>>
    /\ UNCHANGED bvars
    /\ UNCHANGED evars
    /\ UNCHANGED rvars
    /\ UNCHANGED lvars
    /\ UNCHANGED cvars
    /\ UNCHANGED xvars

\* fetch_updates: the request carries self.last_update_id as its offset
\* (polling.rs:59-64) and fails, before or after the upstream has seen it.
PollErr ==
    /\ pc = "fetch"
    /\ pc' = "loop"
    /\ req' \in {[sent |-> TRUE, offset |-> offset, low |-> l] :
                    l \in {req.low, LowAfter(offset)}}
    /\ fetch_res' = "err"
    /\ UNCHANGED upmax
    /\ UNCHANGED updates
    /\ UNCHANGED bvars
    /\ UNCHANGED evars
    /\ UNCHANGED rvars
    /\ UNCHANGED <<offset, started, calls, ticked, kind, builtin>>
    /\ UNCHANGED cvars
    /\ UNCHANGED xvars

\* fetch_updates: the request carries self.last_update_id as its offset and the
\* upstream answers it.
PollOk ==
    /\ pc = "fetch"
    /\ Fetched(Answer(offset))
    /\ req' = [sent |-> TRUE, offset |-> offset, low |-> LowAfter(offset)]
    /\ UNCHANGED upmax
    /\ UNCHANGED xvars

\* After a run that stopped with its snapshot saved, the next process: main()
\* builds a new Bot and a new connector; start() begins with load_data.
PollRestart ==
    /\ pc = "stopped"
    /\ io = "save_ok"
    /\ calls < MaxCalls
    /\ pc' = "load"
    /\ last_update_id' = 0
    /\ start_mark' = 0
    /\ mod_data' = [n \in Modules |-> DefaultState]
    /\ io' = "none"
    /\ offset' = <<>>
    /\ fetch_res' = "none"
    /\ started' = "no"
    /\ dispatched' = <<>>
    /\ gap_log' = <<>>
    /\ seen_max' = 0
    /\ UNCHANGED <<skip_missed_updates, state_rx, updates, idx, order, mstate, fetch_snap,
                   last_checked>>
    /\ UNCHANGED <<modules, file, saved, mode, queue, srv>>
    /\ UNCHANGED rvars
    /\ UNCHANGED <<calls, ticked, kind, builtin>>
    /\ UNCHANGED cvars
    /\ UNCHANGED uvars
    /\ UNCHANGED xvars

PollNext ==
    \/ LoadData
    \/ OnStartup
    \/ CtrlC
    \/ LoopTop
    \/ PollErr
    \/ PollOk
    \/ ForNext
    \/ DelDone
    \/ TryJoinAllPoll
    \/ ForEnd
    \/ Tick
    \/ UpstreamNew
    \/ PollRestart

PollSpec == PollInit /\ [][PollNext]_vars

-----------------------------------------------------------------------------
(***************************************************************************)
(* Imager::try_execute_command for one command: the command name is looked *)
(* up, the search runs, then the reply loop sends the result, reading the  *)
(* response of each send_photo_url call.                                   *)
(***************************************************************************)
\* What one send_photo_url call can give: Err; an error response whose
\* description is REPLIED_MESSAGE_NOT_FOUND; any other error response; Ok.
SendResponses == {"err", "not_found", "api_err", "sent"}

ImgInit ==
    /\ last_update_id = 0
    /\ skip_missed_updates = FALSE
    /\ state_rx = "empty"
    /\ pc = "i_idle"
    /\ updates = <<>>
    /\ idx = 1
    /\ order = <<"imager", "archivarius">>
    /\ mstate = AllIdle
    /\ dispatched = <<>>
    /\ gap_log = <<>>
    /\ seen_max = 0
    /\ fetch_snap = NoSnap
    /\ last_checked = NoCheck
    /\ start_mark = 0
    /\ modules = MainRegistry
    /\ mod_data = [n \in Modules |-> DefaultState]
    /\ file = NoFile
    /\ io = "none"
    /\ saved = NoSave
    /\ mode = "polling"
    /\ queue = <<>>
    /\ srv = "none"
    /\ reg_log = <<>>
    /\ first_reg = MainRegistry
    /\ received = {}
    /\ LInit
    /\ CInit
    /\ UInit
    /\ max_reply_attempts \in 0..MaxAttempts
    /\ attempts_left = 0
    /\ reply_id = TRUE
    /\ sends = 0
    /\ ts_in = NoTsIn
    /\ ts = NoTs

\* try_execute_command up to the loop (imager.rs:206-233): a name that is not
\* the Imager's returns Ok, a failed search returns its error, else
\* n = max_reply_attempts and reply_id = Some(message.message_id).
ImgBegin ==
    /\ pc = "i_idle"
    /\ \E found \in {"not_mine", "search_err", "found"} :
        pc' = CASE found = "not_mine" -> "i_ok"
                [] found = "search_err" -> "i_err"
                [] OTHER -> "i_loop"
    /\ attempts_left' = max_reply_attempts
    /\ reply_id' = TRUE
    /\ sends' = 0
    /\ UNCHANGED <<max_reply_attempts, ts_in, ts>>
    /\ UNCHANGED updates
    /\ UNCHANGED bvars
    /\ UNCHANGED evars
    /\ UNCHANGED rvars
    /\ UNCHANGED lvars
    /\ UNCHANGED cvars
    /\ UNCHANGED uvars

\* One pass of `while n > 0` (imager.rs:234-259): the send, then by its
\* response: REPLIED_MESSAGE_NOT_FOUND clears reply_id and continues, leaving n;
\* any other failure is logged and n decremented; anything else returns Ok.
ImgSend ==
    /\ pc = "i_loop"
    /\ attempts_left > 0
    /\ sends' = IF sends < MaxSends THEN sends + 1 ELSE sends
    /\ \E r \in SendResponses :
        CASE r = "not_found" ->
                /\ reply_id' = FALSE
                /\ UNCHANGED <<attempts_left, pc>>
          [] r = "sent" ->
                /\ pc' = "i_ok"
                /\ UNCHANGED <<attempts_left, reply_id>>
          [] OTHER ->
                /\ attempts_left' = attempts_left - 1
                /\ UNCHANGED <<reply_id, pc>>
    /\ UNCHANGED <<max_reply_attempts, ts_in, ts>>
    /\ UNCHANGED updates
    /\ UNCHANGED bvars
    /\ UNCHANGED evars
    /\ UNCHANGED rvars
    /\ UNCHANGED lvars
    /\ UNCHANGED cvars
    /\ UNCHANGED uvars

\* The loop is left with n = 0: bail!(..) (imager.rs:260-264).
ImgGiveUp ==
    /\ pc = "i_loop"
    /\ attempts_left = 0
    /\ pc' = "i_err"
    /\ UNCHANGED xvars
    /\ UNCHANGED updates
    /\ UNCHANGED bvars
    /\ UNCHANGED evars
    /\ UNCHANGED rvars
    /\ UNCHANGED lvars
    /\ UNCHANGED cvars
    /\ UNCHANGED uvars

ImgNext ==
    \/ ImgBegin
    \/ ImgSend
    \/ ImgGiveUp

ImgSpec == ImgInit /\ [][ImgNext]_vars

-----------------------------------------------------------------------------
(***************************************************************************)
(* Timestamp::from_nanos, from_micros and from_millis.  The argument is an *)
(* i128, `/` and `%` truncate towards zero, and `as u32` keeps the low 32   *)
(* bits.  A u32 is held as two 16-bit halves, hi and lo.                   *)
(***************************************************************************)
NanosPerSec == 1000000000

Half == 2 ^ 16

\* v as u32, for an integer v of either sign.
AsU32(v) == [hi |-> (v \div Half) % Half, lo |-> v % Half]

U32Less(a, b) == a.hi < b.hi \/ (a.hi = b.hi /\ a.lo < b.lo)

Abs(x) == IF x >= 0 THEN x ELSE 0 - x

\* a / b and a % b of Rust, for b > 0.
TruncDiv(a, b) == IF a >= 0 THEN a \div b ELSE 0 - ((0 - a) \div b)
TruncRem(a, b) == a - b * TruncDiv(a, b)

from_nanos(nanos) ==
    LET seconds == TruncDiv(nanos, NanosPerSec)
    IN [seconds |-> seconds,
        nanos |-> IF seconds >= 0
                  THEN AsU32(TruncRem(nanos, NanosPerSec))
                  ELSE AsU32(NanosPerSec - Abs(TruncRem(nanos, NanosPerSec)))]

from_micros(micros) == from_nanos(micros * 1000)

from_millis(millis) == from_nanos(millis * 1000000)

\* The nanoseconds a constructor's argument stands for.
UnitNanos(unit) ==
    CASE unit = "nanos" -> 1
      [] unit = "micros" -> 1000
      [] unit = "millis" -> 1000000

\* The arguments followed for a unit: the quarter seconds and their neighbours.
TsArgs(unit) ==
    {k * ((NanosPerSec \div 4) \div UnitNanos(unit)) + e :
        k \in (0 - MaxQuarters)..MaxQuarters, e \in {0 - 1, 0, 1}}

TsInit ==
    /\ last_update_id = 0
    /\ skip_missed_updates = FALSE
    /\ state_rx = "empty"
    /\ pc = "t_idle"
    /\ updates = <<>>
    /\ idx = 1
    /\ order = <<"imager", "archivarius">>
    /\ mstate = AllIdle
    /\ dispatched = <<>>
    /\ gap_log = <<>>
    /\ seen_max = 0
    /\ fetch_snap = NoSnap
    /\ last_checked = NoCheck
    /\ start_mark = 0
    /\ modules = MainRegistry
    /\ mod_data = [n \in Modules |-> DefaultState]
    /\ file = NoFile
    /\ io = "none"
    /\ saved = NoSave
    /\ mode = "polling"
    /\ queue = <<>>
    /\ srv = "none"
    /\ reg_log = <<>>
    /\ first_reg = MainRegistry
    /\ received = {}
    /\ LInit
    /\ CInit
    /\ UInit
    /\ XInit

\* One call of a constructor.
TsFrom ==
    /\ pc \in {"t_idle", "t_done"}
    /\ pc' = "t_done"
    /\ \E unit \in {"nanos", "micros", "millis"} :
        \E arg \in TsArgs(unit) :
            /\ ts_in' = [unit |-> unit, arg |-> arg]
            /\ ts' = CASE unit = "nanos" -> from_nanos(arg)
                       [] unit = "micros" -> from_micros(arg)
                       [] unit = "millis" -> from_millis(arg)
    /\ UNCHANGED <<max_reply_attempts, attempts_left, reply_id, sends>>
    /\ UNCHANGED updates
    /\ UNCHANGED bvars
    /\ UNCHANGED evars
    /\ UNCHANGED rvars
    /\ UNCHANGED lvars
    /\ UNCHANGED cvars
    /\ UNCHANGED uvars

TsNext == TsFrom

TsSpec == TsInit /\ [][TsNext]_vars

----------------------------------------------------------------------------
(***************************************************************************)
(* The sequencer on its own, over the signed range of UpdateId: any mark,  *)
(* then any sequence of ids, each put through check_is_old_update.         *)
(***************************************************************************)
SeqInit ==
    /\ last_update_id \in SignedIds
    /\ start_mark = last_update_id
    /\ skip_missed_updates = FALSE
    /\ state_rx = "empty"
    /\ pc = "seq"
    /\ updates = <<>>
    /\ idx = 1
    /\ order \in Perms(Modules)
    /\ mstate = AllIdle
    /\ dispatched = <<>>
    /\ gap_log = <<>>
    /\ seen_max = 0
    /\ fetch_snap = NoSnap
    /\ last_checked = NoCheck
    /\ modules = MainRegistry
    /\ mod_data = [n \in Modules |-> DefaultState]
    /\ file = NoFile
    /\ io = "none"
    /\ saved = NoSave
    /\ mode = "polling"
    /\ queue = <<>>
    /\ srv = "none"
    /\ reg_log = <<>>
    /\ first_reg = MainRegistry
    /\ received = {}
    /\ LInit
    /\ CInit
    /\ UInit
    /\ XInit

SeqCheck ==
    /\ pc = "seq"
    /\ \E id \in SignedIds : Sequence(id)
    /\ UNCHANGED <<skip_missed_updates, state_rx, pc, updates, idx, order, mstate,
                   seen_max, fetch_snap, start_mark>>
    /\ UNCHANGED evars
    /\ UNCHANGED rvars
    /\ UNCHANGED lvars
    /\ UNCHANGED cvars
    /\ UNCHANGED uvars
    /\ UNCHANGED xvars

SeqNext == SeqCheck

SeqSpec == SeqInit /\ [][SeqNext]_vars

----------------------------------------------------------------------------
(***************************************************************************)
(* The registry: any sequence of add_module calls on a new Bot, then one   *)
(* command fanned out by handle_message_update.                            *)
(***************************************************************************)
Handlers == 1..MaxHandler

\* Bot::with_config: modules: Default::default().
NoModules == [n \in {} |-> 0]

\* HashMap::insert: the map with name bound to h.
Insert(map, name, h) ==
    [n \in DOMAIN map \cup {name} |-> IF n = name THEN h ELSE map[n]]

\* insert without the contains_key test: a second registration replaces the first.
add_module_overwrite(name, h) ==
    [modules |-> Insert(modules, name, h), logged |-> FALSE]

\* Bot::add_module(name, module): the registry afterwards, and whether the
\* "present already" error was logged.
add_module(name, h) ==
    IF name \in DOMAIN modules
    THEN [modules |-> modules, logged |-> TRUE]
    ELSE [modules |-> Insert(modules, name, h), logged |-> FALSE]

RegInit ==
    /\ last_update_id = 0
    /\ skip_missed_updates = FALSE
    /\ state_rx = "empty"
    /\ pc = "build"
    /\ updates = <<>>
    /\ idx = 1
    /\ order = <<>>
    /\ mstate = AllIdle
    /\ dispatched = <<>>
    /\ gap_log = <<>>
    /\ seen_max = 0
    /\ fetch_snap = NoSnap
    /\ last_checked = NoCheck
    /\ start_mark = 0
    /\ modules = NoModules
    /\ mod_data = NoModules
    /\ file = NoFile
    /\ io = "none"
    /\ saved = NoSave
    /\ mode = "polling"
    /\ queue = <<>>
    /\ srv = "none"
    /\ reg_log = <<>>
    /\ first_reg = NoModules
    /\ received = {}
    /\ LInit
    /\ CInit
    /\ UInit
    /\ XInit

\* One call bot.add_module(name, h) before the Bot is started.
AddModule ==
    /\ pc = "build"
    /\ \E name \in SnapshotNames, h \in Handlers :
        LET r == add_module(name, h)
        IN /\ r.logged => Len(reg_log) < MaxRejects
           /\ modules' = r.modules
           /\ mod_data' = [n \in DOMAIN r.modules |-> DefaultState]
           /\ reg_log' = IF r.logged THEN Append(reg_log, name) ELSE reg_log
           /\ first_reg' = IF name \in DOMAIN first_reg THEN first_reg
                           ELSE Insert(first_reg, name, h)
    /\ UNCHANGED <<last_update_id, skip_missed_updates, state_rx, pc, updates, idx, order,
                   mstate, dispatched, gap_log, seen_max, fetch_snap, last_checked,
                   start_mark, file, io, saved, mode, queue, srv, received>>
    /\ UNCHANGED lvars
    /\ UNCHANGED cvars
    /\ UNCHANGED uvars
    /\ UNCHANGED xvars

\* handle_message_update for a module command: try_execute_command is called on
\* every value of self.modules.
FanOut ==
    /\ pc = "build"
    /\ pc' = "fanned"
    /\ received' = {<<n, modules[n]>> : n \in DOMAIN modules}
    /\ UNCHANGED <<last_update_id, skip_missed_updates, state_rx, updates, idx, order,
                   mstate, dispatched, gap_log, seen_max, fetch_snap, last_checked,
                   start_mark, reg_log, first_reg>>
    /\ UNCHANGED evars
    /\ UNCHANGED lvars
    /\ UNCHANGED cvars
    /\ UNCHANGED uvars
    /\ UNCHANGED xvars

RegNext == AddModule \/ FanOut

RegSpec == RegInit /\ [][RegNext]_vars

----------------------------------------------------------------------------
(***************************************************************************)
(* The snapshot across two runs of the process: a Bot is built and loads   *)
(* the file it finds, runs, saves on shutdown; the next process is built   *)
(* (with any set of modules) and loads what the first one left.            *)
(***************************************************************************)
\* What the file can be before the first run: absent; bytes that are no
\* snapshot (an invalid marker, a snapshot cut short); a snapshot written by a
\* build whose imager had another data layout, so that the imager entry does not
\* decode as today's chat_data while the archivarius entry does.
PersistFiles ==
    {NoFile,
     [exists |-> TRUE, bytes |-> <<255>>],
     [exists |-> TRUE, bytes |-> <<2, 6, 105>>],
     [exists |-> TRUE,
      bytes |-> EncodeEnvelope(<<<<"imager", <<1>>>>, <<"archivarius", <<1, 2>>>>>>, MaxId)],
     [exists |-> TRUE,
      bytes |-> EncodeEnvelope(<<<<"archivarius", <<1, 2>>>>, <<"imager", <<0>>>>>>, 1)]}

\* A new process: Bot::with_config, then add_module for the names in R.
NewBot(R) ==
    /\ last_update_id' = 0
    /\ modules' = [n \in R |-> 1]
    /\ first_reg' = [n \in R |-> 1]
    /\ mod_data' = [n \in R |-> DefaultState]

PInit ==
    /\ last_update_id = 0
    /\ skip_missed_updates = FALSE
    /\ state_rx = "empty"
    /\ pc = "p_fresh"
    /\ updates = <<>>
    /\ idx = 1
    /\ order = <<>>
    /\ mstate = AllIdle
    /\ dispatched = <<>>
    /\ gap_log = <<>>
    /\ seen_max = 0
    /\ fetch_snap = NoSnap
    /\ last_checked = NoCheck
    /\ start_mark = 0
    /\ \E R \in SUBSET Modules :
        /\ modules = [n \in R |-> 1]
        /\ first_reg = [n \in R |-> 1]
        /\ mod_data = [n \in R |-> DefaultState]
    /\ file \in PersistFiles
    /\ io = "none"
    /\ saved = NoSave
    /\ mode = "polling"
    /\ queue = <<>>
    /\ srv = "none"
    /\ reg_log = <<>>
    /\ received = {}
    /\ LInit
    /\ CInit
    /\ UInit
    /\ XInit

\* start(): load_data on the newly built Bot, in the first and in the next run.
PLoad ==
    /\ pc \in {"p_fresh", "p_fresh2"}
    /\ load_data
    /\ pc' = IF pc = "p_fresh" THEN "p_loaded" ELSE "p_loaded2"
    /\ UNCHANGED <<skip_missed_updates, state_rx, updates, idx, order, mstate, dispatched,
                   gap_log, seen_max, fetch_snap, last_checked, start_mark>>
    /\ UNCHANGED <<modules, file, saved, mode, queue, srv>>
    /\ UNCHANGED rvars
    /\ UNCHANGED lvars
    /\ UNCHANGED cvars
    /\ UNCHANGED uvars
    /\ UNCHANGED xvars

\* The first run, from the load to the shutdown signal: the sequencer moves the
\* mark and the handlers change their modules' chat data.
PWork ==
    /\ pc = "p_loaded"
    /\ last_update_id' \in {0} \cup Ids
    /\ mod_data' \in [DOMAIN modules -> ModStates]
    /\ pc' = "p_run"
    /\ UNCHANGED <<skip_missed_updates, state_rx, updates, idx, order, mstate, dispatched,
                   gap_log, seen_max, fetch_snap, last_checked, start_mark>>
    /\ UNCHANGED <<modules, file, io, saved, mode, queue, srv>>
    /\ UNCHANGED rvars
    /\ UNCHANGED lvars
    /\ UNCHANGED cvars
    /\ UNCHANGED uvars
    /\ UNCHANGED xvars

\* start() on State::Shutdown: save_data, then the process ends.
PSave ==
    /\ pc = "p_run"
    /\ save_data
    /\ pc' = "p_saved"
    /\ UNCHANGED <<last_update_id, skip_missed_updates, state_rx, updates, idx, order,
                   mstate, dispatched, gap_log, seen_max, fetch_snap, last_checked,
                   start_mark>>
    /\ UNCHANGED <<modules, mod_data, mode, queue, srv>>
    /\ UNCHANGED rvars
    /\ UNCHANGED lvars
    /\ UNCHANGED cvars
    /\ UNCHANGED uvars
    /\ UNCHANGED xvars

\* The next process is built, with any set of modules.
PRestart ==
    /\ pc = "p_saved"
    /\ \E R \in SUBSET Modules : NewBot(R)
    /\ io' = "none"
    /\ pc' = "p_fresh2"
    /\ UNCHANGED <<skip_missed_updates, state_rx, updates, idx, order, mstate, dispatched,
                   gap_log, seen_max, fetch_snap, last_checked, start_mark>>
    /\ UNCHANGED <<file, saved, mode, queue, srv, reg_log, received>>
    /\ UNCHANGED lvars
    /\ UNCHANGED cvars
    /\ UNCHANGED uvars
    /\ UNCHANGED xvars

PNext == PLoad \/ PWork \/ PSave \/ PRestart

PersistSpec == PInit /\ [][PNext]_vars

----------------------------------------------------------------------------
(***************************************************************************)
(* Claims.                                                                 *)
(***************************************************************************)
Finished(st) == st \in {"ok", "err"}

\* The fan-out of the update just handled has returned.
FanOutReturned == pc = "for" /\ \E m \in Modules : mstate[m] # "idle"

\* C1 (as claimed): when the fan-out of an update has returned and one module's
\* execute_command failed for it, every other module's execute_command for that
\* update was invoked and ran to completion.
C1_SiblingsRunToCompletion ==
    \A m \in Modules :
        (FanOutReturned /\ mstate[m] = "err")
            => \A n \in Modules \ {m} : Finished(mstate[n])

\* C2 (as claimed): the fan-out never returns while a handler invocation is
\* unfinished: once it has returned, every module's future completed or failed.
C2_JoinWaitsForAll ==
    pc # "join" => \A m \in Modules : mstate[m] = "idle" \/ Finished(mstate[m])

\* C3: no update id is dispatched more than once and the dispatched ids occur in
\* non-decreasing order, whatever batches were fetched.
C3_DispatchOnceInOrder ==
    /\ \A i, j \in DOMAIN dispatched : i # j => dispatched[i] # dispatched[j]
    /\ \A i, j \in DOMAIN dispatched : i < j => dispatched[i] <= dispatched[j]

\* Two updates were dispatched and a replayed id has just been discarded.
C3_Witness ==
    /\ Len(dispatched) >= 2
    /\ last_checked.called /\ last_checked.old
    /\ \E i \in DOMAIN dispatched : dispatched[i] = last_checked.id

\* C4: the high-water mark never decreases from one step to the next.
C4_MarkNeverDecreases == [][last_update_id' >= last_update_id]_vars

\* Within one batch the mark advanced and then a lower id was delivered.
C4_Witness ==
    /\ last_checked.called
    /\ last_checked.id < last_update_id
    /\ fetch_snap.mark < last_update_id
    /\ start_mark < last_update_id

\* C5 (as claimed): once an update has been delivered to the sequencer, the mark
\* equals the largest id delivered so far.
C5_MarkIsMaxDelivered == seen_max # 0 => last_update_id = seen_max

\* C5 (amended): the mark equals the larger of the mark restored at startup and
\* the largest id delivered to the sequencer so far.
C5_MarkIsMaxOfRestoredAndDelivered == last_update_id = Max2(start_mark, seen_max)

\* A restored mark above every id delivered so far.
C5_Witness ==
    /\ seen_max # 0
    /\ seen_max < start_mark
    /\ last_checked.called

\* C6: an update whose id is at most the current mark triggers no dispatch (no
\* built-in, no module future) and leaves the mark alone.
C6_OldUpdateNotDispatched ==
    [][(pc = "for" /\ idx <= Len(updates) /\ idx' = idx + 1
            /\ updates[idx] <= last_update_id)
        => /\ last_update_id' = last_update_id
           /\ dispatched' = dispatched
           /\ pc' = "for"
           /\ mstate' = AllIdle]_vars

\* An id equal to the mark has just been discarded.
C6_Witness ==
    /\ last_checked.called /\ last_checked.old
    /\ last_checked.id = last_update_id
    /\ pc = "for"

\* C7 (as claimed), for every pair (mark, id): discarded exactly when mark # 0 and
\* id <= mark; otherwise accepted with mark = id; gap logged exactly when mark # 0
\* and id > mark + 1.
C7_ThreeCaseRule ==
    last_checked.called =>
        LET mark == last_checked.last
            id == last_checked.id
        IN /\ last_checked.old <=> (mark # 0 /\ id <= mark)
           /\ ~last_checked.old => last_update_id = id
           /\ last_checked.logged <=> (mark # 0 /\ id > mark + 1)

\* C7 (amended): discarded exactly when id <= mark, also when mark = 0; otherwise
\* accepted with mark = id; gap logged exactly when mark # 0 and id > mark + 1.
C7_DiscardIffNotAboveMark ==
    last_checked.called =>
        LET mark == last_checked.last
            id == last_checked.id
        IN /\ last_checked.old <=> id <= mark
           /\ last_checked.old => last_update_id = mark
           /\ ~last_checked.old => last_update_id = id
           /\ last_checked.logged <=> (mark # 0 /\ id > mark + 1)

\* The sequencer was called with mark 0 and an id that is not above it.
C7_Witness ==
    /\ last_checked.called
    /\ last_checked.last = 0
    /\ last_checked.id <= 0

\* C8: a gap (mark # 0, id > mark + 1) adds exactly one entry to the error log,
\* the update is accepted and the mark becomes its id; no other step adds one.
C8_GapLoggedOnce ==
    [][IF /\ pc = "for" /\ idx <= Len(updates) /\ idx' = idx + 1
          /\ last_update_id # 0
          /\ updates[idx] > last_update_id + 1
       THEN /\ gap_log' = Append(gap_log, <<last_update_id, updates[idx]>>)
            /\ last_update_id' = updates[idx]
            /\ dispatched' = Append(dispatched, updates[idx])
       ELSE gap_log' = gap_log]_vars

\* A gap has just been logged for the update that now is the mark.
C8_Witness ==
    /\ last_checked.called /\ last_checked.logged
    /\ Len(gap_log) >= 1
    /\ Last(gap_log) = <<last_checked.last, last_update_id>>
    /\ Last(dispatched) = last_update_id

\* C9: with the skip flag set and mark 0, a non-empty batch only moves the mark to
\* the largest id of the batch and nothing is dispatched; with a non-zero mark (so
\* for every later batch) a non-empty batch is iterated from its first update.
C9_ColdStartSkip ==
    [][(pc = "fetch" /\ updates' # <<>>)
        => IF skip_missed_updates /\ last_update_id = 0
           THEN /\ \A i \in DOMAIN updates' : updates'[i] <= last_update_id'
                /\ \E i \in DOMAIN updates' : updates'[i] = last_update_id'
                /\ last_update_id' # 0
                /\ dispatched' = dispatched
                /\ gap_log' = gap_log
                /\ mstate' = AllIdle
                /\ pc' = "loop"
           ELSE /\ last_update_id' = last_update_id
                /\ dispatched' = dispatched
                /\ idx' = 1
                /\ pc' = "for"]_vars

\* Skip flag set, no mark restored: a first batch was consumed by the fast-forward
\* (no dispatch) and the one update of a later batch has been dispatched.
C9_Witness ==
    /\ skip_missed_updates
    /\ start_mark = 0
    /\ fetch_snap.mark > 1
    /\ fetch_snap.ndisp = 0
    /\ Len(updates) = 1
    /\ dispatched = <<updates[1]>>
    /\ last_update_id = updates[1]
    /\ pc = "tick"

StrictlyIncreasing(s) == \A i, j \in DOMAIN s : i < j => s[i] < s[j]

\* The id before position i of the batch: the mark at fetch time, then the batch.
Before(i) == IF i = 1 THEN fetch_snap.mark ELSE updates[i - 1]

\* C10: for a batch with strictly increasing ids, all above a non-zero mark, the
\* updates taken so far were dispatched once each in batch order, the mark is the
\* last one taken, and one gap entry was logged per non-contiguous id.
C10_IncreasingBatchDispatchedInOrder ==
    (/\ pc \in {"for", "del", "join", "tick"}
     /\ fetch_snap.mark # 0
     /\ Len(updates) > 0
     /\ StrictlyIncreasing(updates)
     /\ updates[1] > fetch_snap.mark)
    => /\ Len(dispatched) = fetch_snap.ndisp + idx - 1
       /\ \A i \in 1..(idx - 1) : dispatched[fetch_snap.ndisp + i] = updates[i]
       /\ idx > 1 => last_update_id = updates[idx - 1]
       /\ Len(gap_log) - fetch_snap.ngap
            = Cardinality({i \in 1..(idx - 1) : updates[i] > Before(i) + 1})
       /\ pc = "tick" => idx = Len(updates) + 1

\* A batch [mark + 1, mark + 3] has been processed: two dispatches, one gap entry.
C10_Witness ==
    /\ pc = "tick"
    /\ fetch_snap.mark # 0
    /\ Len(updates) = 2
    /\ updates[1] = fetch_snap.mark + 1
    /\ updates[2] = updates[1] + 2
    /\ Len(dispatched) = fetch_snap.ndisp + 2
    /\ Len(gap_log) = fetch_snap.ngap + 1
    /\ Last(gap_log) = <<updates[1], updates[2]>>
    /\ last_update_id = updates[2]

\* C11: handler invocations of two different updates are never in progress
\* together: a module's future is alive only while the loop is parked in the
\* fan-out of the update it was created for, so whenever the loop is anywhere
\* else (taking the next update, running the built-in, fetching, ticking) no
\* handler invocation is in progress.
C11_NoOverlapBetweenUpdates ==
    (\E m \in Modules : Live(mstate[m])) => pc = "join"

\* A fan-out in which a handler had to be waited for has returned with every
\* handler finished, and the batch still holds a further update.
C11_Witness ==
    /\ pc = "for"
    /\ idx <= Len(updates)
    /\ \A m \in Modules : mstate[m] = "ok"

\* C12: whatever add_module calls were made, every name ever offered has exactly
\* one entry in the registry, bound to the handler of the first call for that
\* name, and a fanned-out command is handed to exactly those first handlers; a
\* repeated name is answered by an error entry (there is no panic in add_module).
C12_FirstRegistrationKept ==
    /\ DOMAIN modules = DOMAIN first_reg
    /\ \A n \in DOMAIN first_reg : modules[n] = first_reg[n]
    /\ pc = "fanned" => received = {<<n, first_reg[n]>> : n \in DOMAIN first_reg}
    /\ pc # "panicked"

\* A name was offered again, the call was rejected, and a command fanned out
\* afterwards reached the handler first registered under that name.
C12_Witness ==
    /\ pc = "fanned"
    /\ Len(reg_log) > 0
    /\ <<reg_log[1], first_reg[reg_log[1]]>> \in received

\* C13: round trip.  When the first run's save_data succeeded and the next
\* process was built with the same module names, its load succeeds and leaves
\* the mark and every module's state as they were when serialize was called.
C13_RoundTrip ==
    (pc = "p_loaded2" /\ saved.done /\ DOMAIN modules = DOMAIN saved.data)
        => /\ io = "load_ok"
           /\ last_update_id = saved.mark
           /\ mod_data = saved.data

\* Both modules, a non-zero mark and non-default chat data went through the file.
C13_Witness ==
    /\ pc = "p_loaded2"
    /\ saved.done
    /\ DOMAIN modules = Modules
    /\ DOMAIN saved.data = Modules
    /\ saved.mark > 0
    /\ \E n \in Modules : saved.data[n] # DefaultState
    /\ mod_data = saved.data

\* A load_data call returns, in the first or in the next run.
LoadStep == pc \in {"p_fresh", "p_fresh2"} /\ pc' \in {"p_loaded", "p_loaded2"}

\* The snapshot the file holds, as decode_from_slice reads it.
FileEnvelope == IF file.exists THEN DecodeEnvelope(file.bytes) ELSE BadEnvelope

Registered(nb) == \E n \in DOMAIN modules : NameBytes(n) = nb

\* The registered modules the snapshot has an entry for.
Named == {n \in DOMAIN modules : NameBytes(n) \in EntryNames(FileEnvelope)}

\* C14: a load of a snapshot that holds an entry of a name not registered, its
\* entries of registered modules being decodable, returns Ok, leaves the registry
\* as it was and gives every registered module named in the snapshot the state
\* its entry encodes.
C14_UnknownEntrySkipped ==
    [][(/\ LoadStep
        /\ FileEnvelope.ok
        /\ \E nb \in EntryNames(FileEnvelope) : ~Registered(nb)
        /\ \A n \in Named : ModDeserialize(BlobOf(FileEnvelope, NameBytes(n))).ok)
        => /\ io' = "load_ok"
           /\ modules' = modules
           /\ \A n \in Named :
                mod_data'[n] = ModDeserialize(BlobOf(FileEnvelope, NameBytes(n))).val]_vars

\* A snapshot with an entry of an unregistered name was loaded and gave a
\* registered module chat data.
C14_Witness ==
    /\ pc = "p_loaded2"
    /\ io = "load_ok"
    /\ \E nb \in EntryNames(FileEnvelope) : ~Registered(nb)
    /\ \E n \in Named : mod_data[n] # DefaultState

\* C15 (as claimed): whenever load_data has failed, the Bot is in its default
\* state: mark 0 and every module as new() built it.
C15_FailedLoadLeavesDefaults ==
    (pc \in {"p_loaded", "p_loaded2"} /\ io = "load_err")
        => /\ last_update_id = 0
           /\ \A n \in DOMAIN modules : mod_data[n] = DefaultState

\* C16 (as claimed): after a successful save_data the file holds exactly the
\* bytes serialize returned.
C16_FileIsExactlyTheSnapshot ==
    (pc = "p_saved" /\ io = "save_ok") => file.bytes = saved.bytes

\* C17: a load leaves every registered module the snapshot has no entry for as
\* it was, which is the state new() built.
C17_UnnamedModulesUntouched ==
    [][LoadStep =>
        \A n \in DOMAIN modules \ Named :
            mod_data'[n] = mod_data[n] /\ mod_data'[n] = DefaultState]_vars

\* A load restored one module from the snapshot while another registered module
\* had no entry in it.
C17_Witness ==
    /\ pc = "p_loaded2"
    /\ io = "load_ok"
    /\ \E n \in Named : mod_data[n] # DefaultState
    /\ \E n \in DOMAIN modules \ Named : mod_data[n] = DefaultState

\* The run loop has been entered and has not ended.
InLoop == pc \notin {"load", "startup", "panicked", "stopped", "fetch_panicked"}

\* C18 (as claimed): once Shutdown is on the channel of a Bot whose loop is
\* running, the loop gets to take it, save and stop, with either transport: while
\* the signal waits, start() always has a step of its own to take and is never
\* suspended on something only its surroundings can provide.
C18_ShutdownNeverStuck ==
    (state_rx = "shutdown" /\ InLoop) => ENABLED BotStep

\* C19: the step that acts on the shutdown signal is taken at the top of the
\* loop only, with no handler future alive, no built-in in flight and the batch
\* of the previous iteration iterated to its end; the snapshot it writes holds
\* the mark left by the last sequencer call.
C19_ShutdownOnlyBetweenBatches ==
    [][pc' = "stopped" =>
            /\ pc = "loop"
            /\ state_rx = "shutdown"
            /\ idx > Len(updates)
            /\ \A m \in Modules : ~Live(mstate[m])
            /\ last_update_id' = last_update_id
            /\ saved'.done => saved'.mark = last_update_id]_vars

\* The loop acted on the signal after updates had been accepted and dispatched,
\* and saved a snapshot holding the mark of the last of them.
C19_Witness ==
    /\ pc = "stopped"
    /\ io = "save_ok"
    /\ Len(updates) = 0
    /\ Len(dispatched) >= 2
    /\ saved.mark = Last(dispatched)

\* C20 (as claimed): a run that got past on_startup ends only by the shutdown
\* path, after a save_data attempt.
C20_OnlyGracefulTermination ==
    pc \in {"stopped", "fetch_panicked"} => (pc = "stopped" /\ io \in {"save_ok", "save_err", "ser_err"})

\* C21: the step that takes the shutdown signal ends the run whatever save_data
\* answers: it leaves the loop top for "stopped", with the outcome of the one
\* save_data call on record, and nothing happens after it (no second save, no
\* further iteration, no panic).
C21_FailedSaveStillStops ==
    [][/\ (pc = "loop" /\ state_rx = "shutdown" /\ io' # io)
            => (pc' = "stopped" /\ io' \in {"save_ok", "save_err", "ser_err"})
       /\ pc = "stopped" => (pc' = "stopped" /\ io' = io /\ file' = file)]_vars

\* The run ended on a shutdown signal whose save_data failed.
C21_Witness ==
    /\ pc = "stopped"
    /\ io = "save_err"
    /\ state_rx = "empty"

\* C22: the step in which fetch_updates returns an error takes the loop back to
\* its top and changes neither the mark, nor any module's state, nor the polling
\* connector's offset, and dispatches nothing.
C22_FetchErrorMutatesNothing ==
    [][(pc = "fetch" /\ fetch_res' = "err")
        => /\ pc' = "loop"
           /\ last_update_id' = last_update_id
           /\ mod_data' = mod_data
           /\ offset' = offset
           /\ dispatched' = dispatched
           /\ \A m \in Modules : mstate'[m] = "idle"
           /\ builtin' = "idle"]_vars

\* A poll failed after earlier polls had set the offset and the mark.
C22_Witness ==
    /\ pc = "loop"
    /\ fetch_res = "err"
    /\ offset # <<>>
    /\ last_update_id > 0
    /\ dispatched # <<>>

\* C23: the step in which a module handler or the built-in command (the call
\* of the Communicator) returns an error takes the loop back into its for
\* statement with the batch and the position in it intact, and from there the
\* loop can go on: to the next update of the batch or, at its end, to the tick
\* and the later batches.
C23_UpdateErrorKeepsLoopRunning ==
    [][/\ (pc = "join" /\ \E m \in Modules : mstate'[m] = "err")
            => (pc' = "for" /\ idx' = idx /\ updates' = updates)
       /\ (pc = "del" /\ builtin' = "err")
            => (pc' = "for" /\ idx' = idx /\ updates' = updates)
       /\ (pc = "for" /\ (builtin = "err" \/ \E m \in Modules : mstate[m] = "err"))
            => ENABLED (ForNext \/ ForEnd)]_vars

\* A handler failed for an update that was not the last of its batch.
C23_Witness ==
    /\ pc = "for"
    /\ \E m \in Modules : mstate[m] = "err"
    /\ idx <= Len(updates)

\* C24: for an accepted message whose command is the built-in "del" the
\* built-in runs and no module's try_execute_command is invoked, during the call
\* and after it, whether it ended Ok or Err; for an accepted message with any
\* other text the built-in does not run and every module's try_execute_command
\* is invoked.
C24_BuiltinInsteadOfFanOut ==
    /\ kind = "MessageDel"
            => (builtin # "idle" /\ \A m \in Modules : mstate[m] = "idle")
    /\ kind = "MessageText"
            => (builtin = "idle" /\ \A m \in Modules : mstate[m] # "idle")
    /\ builtin # "idle" => kind = "MessageDel"

\* The built-in has run and failed, and no module was invoked.
C24_Witness ==
    /\ pc = "for"
    /\ kind = "MessageDel"
    /\ builtin = "err"
    /\ \A m \in Modules : mstate[m] = "idle"

\* C27: on_startup is called once in a run, after load_data has returned and
\* before anything is fetched: none while loading or about to start, one ever
\* after; the loop is only ever entered after it returned Ok; and when it
\* returned Err the run is over (the expect panicked) with nothing fetched and
\* nothing dispatched.
C27_StartupOnceBeforeLoop ==
    /\ pc = "load" => (calls = 0 /\ io = "none")
    /\ pc = "startup" => (calls = 0 /\ io \in {"load_ok", "load_err"})
    /\ pc \notin {"load", "startup"} => calls = 1
    /\ pc \notin {"load", "startup", "panicked"} => started = "ok"
    /\ calls = 0
            => (fetch_res = "none" /\ offset = <<>> /\ seen_max = 0 /\ dispatched = <<>>)
    /\ started = "err"
            => /\ pc = "panicked"
               /\ fetch_res = "none" /\ offset = <<>> /\ seen_max = 0
               /\ dispatched = <<>>
               /\ \A m \in Modules : mstate[m] = "idle"

\* on_startup failed and the run ended there.
C27_Witness ==
    /\ pc = "panicked"
    /\ started = "err"
    /\ calls = 1
    /\ io \in {"load_ok", "load_err"}

\* C30: every iteration that fetched is followed by interval.tick() before the
\* next one begins, whatever fetch_updates gave: back at the top of the loop
\* after a fetch, the tick has been waited for.
C30_TickEveryIteration ==
    (pc = "loop" /\ fetch_res # "none") => ticked

\* C25: with the webhook connector started once, what fetch_updates has
\* returned followed by what the channel holds is what the listener enqueued, in
\* that order (nothing dropped, duplicated or reordered, however many updates
\* the channel holds); each returned batch is the single update taken last; and
\* an update in the channel can be fetched.
C25_ChannelDeliversInOrder ==
    mode = "webhook" =>
        /\ calls <= 1 => (deq \o queue = enq /\ dropped = 0)
        /\ (fetch_res = "batch" /\ pc = "c_idle")
                => updates = <<Last(deq)>>
        /\ (pc = "c_idle" /\ calls = 1 /\ queue # <<>>) => ENABLED ConnFetch

\* Two updates were enqueued between two fetch_updates calls, after a first
\* one was fetched.
C25_Witness ==
    /\ mode = "webhook"
    /\ calls = 1
    /\ Len(deq) = 1
    /\ Len(queue) = 2
    /\ queue[1] # queue[2]

\* C26: a finished on_startup of the webhook connector returned Ok exactly if
\* the certificate loaded, SetWebhook returned true, GetWebhookInfo returned,
\* and it reported a custom certificate, the requested url and the requested ip
\* address.
C26_StartupOkOnlyIfConfirmed ==
    (mode = "webhook" /\ pc = "c_idle" /\ calls >= 1) =>
        /\ started \in {"ok", "err"}
        /\ started = "ok" <=>
                /\ resp.pem
                /\ resp.set = "true"
                /\ resp.info.ok
                /\ resp.info.cert
                /\ resp.info.url
                /\ resp.info.ip

\* Everything was confirmed but the ip address, and on_startup returned Err.
C26_Witness ==
    /\ mode = "webhook"
    /\ pc = "c_idle"
    /\ started = "err"
    /\ resp.set = "true"
    /\ resp.info.ok /\ resp.info.cert /\ resp.info.url
    /\ ~resp.info.ip

\* C28: on_startup is idempotent: however often it was called, once it has
\* returned Ok no update the upstream posts is lost on its way to fetch_updates.
C28_StartupIdempotent ==
    (pc = "c_idle" /\ started = "ok") => dropped = 0

\* C29 as claimed: the listener is started only after the registration request
\* was issued, and nothing is enqueued before it.
C29_RegisterBeforeListen ==
    (srv # "none" \/ enq # <<>>) => reg_sent

\* C29: the listener is spawned before the registration request is issued: once
\* the request was issued a server task had been spawned, and updates are
\* enqueued only by a spawned server.
C29_ListenBeforeRegister ==
    /\ reg_sent => srv # "none"
    /\ enq # <<>> => srv # "none"
    /\ pc = "c_spawned" => (srv # "none" /\ (calls = 1 => ~reg_sent))

\* An update was enqueued by the spawned listener before the registration
\* request was issued.
C29_Witness ==
    /\ pc = "c_spawned"
    /\ srv = "up"
    /\ ~reg_sent
    /\ enq # <<>>

\* C31: a save_data in which a module's serialize fails changes nothing of the
\* snapshot file (neither its existence nor a byte of it) and counts as no save.
C31_FailedSerializeLeavesFile ==
    [][(io' = "ser_err" /\ io # "ser_err") => (file' = file /\ saved' = saved)]_vars

\* The save at the end of the first run failed in a module's serialize, where no
\* snapshot file existed; none exists after it.
C31_Witness ==
    /\ pc = "p_saved"
    /\ io = "ser_err"
    /\ ~file.exists
    /\ ~saved.done

\* C32: the polling connector's offset is None when a run begins; a poll (the
\* step that leaves "fetch") sends a request carrying the stored offset; when it
\* returns a non-empty batch the offset becomes the largest id of that batch,
\* when it fails or returns an empty batch the offset stays; and no other step
\* of a run changes it.
C32_OffsetFollowsPolls ==
    [][/\ pc' \in {"load", "startup"} => offset' = <<>>
       /\ IF pc = "fetch" /\ pc' # "fetch"
          THEN /\ req'.sent
               /\ req'.offset = offset
               /\ IF fetch_res' # "err" /\ updates' # <<>>
                  THEN /\ Len(offset') = 1
                       /\ \A i \in DOMAIN updates' : updates'[i] <= offset'[1]
                       /\ \E i \in DOMAIN updates' : updates'[i] = offset'[1]
                  ELSE offset' = offset
          ELSE offset' = offset \/ pc = "stopped"]_vars

\* A request carrying a stored offset returned a batch of two, whose larger id
\* is the offset now.
C32_Witness ==
    /\ req.sent
    /\ req.offset # <<>>
    /\ Len(updates) = 2
    /\ fetch_res = "batch"
    /\ offset = <<updates[2]>>
    /\ updates[2] > updates[1]
    /\ updates[2] > req.offset[1]

\* C33: polling an upstream that answers with what it holds from the offset on,
\* the updates the loop iterates are dispatched once each and none is passed
\* over: the ids dispatched in a run are consecutive, without repetition and
\* without a logged gap, and once a batch has been run through, each of its
\* updates above the mark the batch met has been dispatched, while the re-sent
\* ones at or below that mark were not dispatched again.  (A batch consumed by
\* the cold-start fast-forward is not iterated.)
C33_PolledUpdatesDispatchedOnce ==
    /\ \A i, j \in DOMAIN dispatched : i # j => dispatched[i] # dispatched[j]
    /\ \A i \in DOMAIN dispatched :
            i < Len(dispatched) => dispatched[i + 1] = dispatched[i] + 1
    /\ gap_log = <<>>
    /\ pc = "tick" =>
            \A i \in DOMAIN updates :
                IF updates[i] > fetch_snap.mark
                THEN \E j \in DOMAIN dispatched :
                        j > fetch_snap.ndisp /\ dispatched[j] = updates[i]
                ELSE \A j \in DOMAIN dispatched :
                        j > fetch_snap.ndisp => dispatched[j] # updates[i]

\* A batch of two has been run through: its first update, re-sent because the
\* request's offset was its id, had been dispatched before and was discarded;
\* its second was dispatched.
C33_Witness ==
    /\ pc = "tick"
    /\ Len(updates) = 2
    /\ req.offset = <<updates[1]>>
    /\ fetch_snap.mark = updates[1]
    /\ Len(dispatched) >= 2
    /\ Last(dispatched) = updates[2]
    /\ dispatched[Len(dispatched) - 1] = updates[1]

\* A process started after an earlier one stopped with its snapshot saved.
LaterRun == saved.done /\ (pc # "stopped" \/ calls >= 2)

\* C34: in a process started after a graceful stop, once load_data has
\* succeeded the mark restored is the mark saved, and as long as the process
\* runs no update with an id at or below it is dispatched, whatever the
\* upstream delivers again.
C34_NoRedispatchAfterRestart ==
    (LaterRun /\ pc \notin {"load", "stopped"} /\ io = "load_ok") =>
        /\ start_mark = saved.mark
        /\ last_update_id >= saved.mark
        /\ \A i \in DOMAIN dispatched : dispatched[i] > saved.mark

\* In the later process, whose connector sent its first request without offset,
\* the update the earlier one dispatched last and saved as its mark was
\* delivered again and discarded, and a newer one has been dispatched.
C34_Witness ==
    /\ LaterRun
    /\ io = "load_ok"
    /\ saved.mark > 0
    /\ start_mark = saved.mark
    /\ pc = "tick"
    /\ Len(updates) = 2
    /\ updates[1] = saved.mark
    /\ dispatched = <<updates[2]>>

\* C35: a handler (the built-in or a module's try_execute_command) is invoked
\* only for an accepted MessageUpdate with text (while a batch is iterated, a
\* handler's state on record belongs to such an update); an accepted update of
\* any other kind, or a MessageUpdate without text, has moved the mark to its id
\* and the loop is back at the for, with no handler invoked and so none failed.
C35_HandlersOnlyForTextMessages ==
    /\ (pc \in {"for", "del", "join"}
            /\ (builtin # "idle" \/ \E m \in Modules : mstate[m] # "idle"))
            => /\ kind \in {"MessageDel", "MessageText"}
               /\ last_checked.called /\ ~last_checked.old
    /\ kind \in {"MessageNoText", "Other"}
            => /\ last_checked.called /\ ~last_checked.old
               /\ last_update_id = last_checked.id
               /\ Last(dispatched) = last_checked.id
               /\ builtin = "idle"
               /\ \A m \in Modules : mstate[m] = "idle"
               /\ pc = "for"
    /\ kind = "old"
            => (builtin = "idle" /\ \A m \in Modules : mstate[m] = "idle")

\* A message without text was accepted above a non-zero mark: the mark is its
\* id and nothing was invoked.
C35_Witness ==
    /\ kind = "MessageNoText"
    /\ pc = "for"
    /\ last_checked.last # 0
    /\ last_update_id = last_checked.id
    /\ builtin = "idle"
    /\ \A m \in Modules : mstate[m] = "idle"

\* C36: a batch is consumed by the cold-start skip only with the flag set and
\* the mark 0, before anything was handed to the sequencer in the run, and never
\* a second time in a run (the step needs seen_max = 0, leaves it above 0, and
\* no step lowers it); after a non-zero mark was restored, a non-empty batch goes
\* to the for loop, flag or no flag.
C36_SkipOnlyAtZeroMarkOnce ==
    [][/\ (pc = "fetch" /\ fetch_res' = "skipped")
            => /\ skip_missed_updates
               /\ last_update_id = 0
               /\ start_mark = 0
               /\ seen_max = 0 /\ dispatched = <<>>
               /\ seen_max' > 0 /\ last_update_id' > 0
       /\ seen_max' >= seen_max
       /\ (pc = "fetch" /\ pc' # "fetch" /\ updates' # <<>> /\ start_mark # 0)
            => (pc' = "for" /\ idx' = 1 /\ fetch_res' = "batch")]_vars

\* With the flag set and a non-zero mark restored, the first batch handed to the
\* sequencer in the run was iterated and an update of it dispatched.
C36_Witness ==
    /\ skip_missed_updates
    /\ start_mark # 0
    /\ fetch_res = "batch"
    /\ fetch_snap.ndisp = 0
    /\ fetch_snap.mark = start_mark
    /\ Len(dispatched) >= 1
    /\ \E i \in DOMAIN updates : updates[i] = dispatched[1]

\* C37: the reply loop makes a bounded number of send attempts, whatever the
\* responses: at most max_reply_attempts failed ones and the one more that a
\* cleared reply_id costs.
C37_ReplyLoopBounded ==
    sends <= max_reply_attempts + 1

\* C38: for the argument of a constructor, standing for n nanoseconds, the
\* timestamp returned has its nanos below 1_000_000_000 and
\* seconds * 1_000_000_000 + nanos = n.
C38_FromNanosNormalized ==
    pc = "t_done" =>
        LET n == ts_in.arg * UnitNanos(ts_in.unit)
            d == n - ts.seconds * NanosPerSec
        IN /\ U32Less(ts.nanos, AsU32(NanosPerSec))
           /\ d >= 0
           /\ ts.nanos = AsU32(d)

====
